---- MODULE Spec2Model ----
(***************************************************************************)
(* Whaple: message routing (Whaple.ts), durable queue (QueueManager.ts),   *)
(* health cache (HealthChecker.ts), API client (ApiClient.ts) and the      *)
(* direct WhatsApp channel (WhatsAppConnection.ts).                        *)
(*                                                                         *)
(* Every public call of the SDK is one action.  The outcomes of the I/O a  *)
(* call performs (health probe, store reads and writes, API send, socket   *)
(* send) are inputs of the action, drawn from small sets.  The variable    *)
(* `last` describes the call that has just completed, in the state the     *)
(* call leaves, before anything else happens to the store or the clock; the*)
(* caller then takes the result (Return), which resets it to NoCall.       *)
(***************************************************************************)
EXTENDS Integers, Sequences, FiniteSets, TLC

(***************************************************************************)
(* Bounds of the model.                                                    *)
(***************************************************************************)
MaxIds == 2
MaxTicks == 1
\* Timers of the connection that may be armed at once.
MaxTimers == 2
\* Longest destination string passed to normalizePhoneNumber.
MaxLen == 3
\* Times normalizePhoneNumber is applied in a row.
MaxApplications == 2

Ids == 1..MaxIds
\* Date.now() when the model starts.
StartTime == 2 * 60000

(***************************************************************************)
(* Program constants.                                                      *)
(***************************************************************************)
DefaultCacheTimeMs == 5000
DefaultQueueThreshold == 0
MAX_RECONNECT_ATTEMPTS == 3
BASE_RECONNECT_DELAY == 5000
MAX_RECONNECT_DELAY == 60000
\* Math.random() * 1000: the jitter of a reconnect delay stays below this.
JitterMs == 1000
HeartbeatToleranceMs == 60000

\* One step of the clock: the time after which a cached health result expires.
TickMs == DefaultCacheTimeMs
MaxTime == StartTime + MaxTicks * TickMs

VARIABLES
    \* Whaple configuration
    useDirectWhatsApp, enableSmartRouting, queueThreshold,
    \* Durable Store partitions under message_queue/
    pending, processing, completed, failed,
    \* HealthChecker.cache
    cacheLastCheck, cacheLastResult, cacheTimeMs,
    \* WhatsAppConnection fields
    sock, isConnected, isAuthenticated, connectionState,
    reconnectAttempts, isReconnecting, reconnectTimeout, currentQR,
    \* setTimeout callbacks of the connection that have not run yet
    reconnectTimers, restartTimers,
    \* message_queue/server_status/heartbeat, written by the worker
    heartbeat,
    \* Date.now()
    now,
    \* the SDK call that has just completed
    last

configVars == <<useDirectWhatsApp, enableSmartRouting, queueThreshold>>
storeVars == <<pending, processing, completed, failed>>
healthVars == <<cacheLastCheck, cacheLastResult, cacheTimeMs>>
waVars == <<sock, isConnected, isAuthenticated, connectionState,
            reconnectAttempts, isReconnecting, reconnectTimeout, currentQR,
            reconnectTimers, restartTimers>>
vars == <<configVars, storeVars, heartbeat, healthVars, waVars, now, last>>

(***************************************************************************)
(* Values.                                                                 *)
(***************************************************************************)
\* SendMessageResult.position is optional; NoPosition stands for undefined.
NoPosition == 0 - 2
\* A message id that is not a queue key (assigned by the direct backend).
DirectId == 0
\* Error messages are chains of prefixes: `${prefix}: ${inner message}`.
NoError == <<>>
Wrap(prefix, err) == <<prefix>> \o err

(***************************************************************************)
(* QueueManager                                                            *)
(***************************************************************************)
\* Every id that keys a record in some partition of the store.
UsedIds == DOMAIN pending \cup processing \cup completed \cup failed

\* A variant of FreshIds: ids that may collide with existing records.
FreshIds_Colliding == Ids

\* generateMessageId / randomUUID: an id no record has.  Ids stand for the
\* UUID strings; their numeric order stands for the lexical order of keys.
FreshIds == Ids \ UsedIds

\* Object.keys(snapshot.val()): the keys of the partition in key order.
RECURSIVE ObjectKeys(_)
ObjectKeys(S) ==
    IF S = {} THEN <<>>
    ELSE LET m == CHOOSE x \in S : \A y \in S : x <= y
         IN <<m>> \o ObjectKeys(S \ {m})

\* A variant of the sort step that is not stable: x goes in front of the
\* elements it compares equal to.
RECURSIVE InsertByQueuedAt_BeforeEqual(_, _, _)
InsertByQueuedAt_BeforeEqual(sorted, x, messages) ==
    IF sorted = <<>> THEN <<x>>
    ELSE IF messages[Head(sorted)].queuedAt - messages[x].queuedAt < 0
         THEN <<Head(sorted)>> \o InsertByQueuedAt_BeforeEqual(Tail(sorted), x, messages)
         ELSE <<x>> \o sorted

\* One step of the stable sort: x goes behind every element that does not
\* compare greater than it.
RECURSIVE InsertByQueuedAt(_, _, _)
InsertByQueuedAt(sorted, x, messages) ==
    IF sorted = <<>> THEN <<x>>
    ELSE IF messages[Head(sorted)].queuedAt - messages[x].queuedAt <= 0
         THEN <<Head(sorted)>> \o InsertByQueuedAt(Tail(sorted), x, messages)
         ELSE <<x>> \o sorted

\* Object.keys(messages).sort((a, b) => messages[a].queuedAt - messages[b].queuedAt)
RECURSIVE SortByQueuedAt(_, _)
SortByQueuedAt(keys, messages) ==
    IF keys = <<>> THEN <<>>
    ELSE InsertByQueuedAt(
             SortByQueuedAt(SubSeq(keys, 1, Len(keys) - 1), messages),
             keys[Len(keys)], messages)

\* Array.prototype.indexOf, 0-based, -1 when absent.
IndexOf(seq, x) ==
    IF \E i \in 1..Len(seq) : seq[i] = x
    THEN (CHOOSE i \in 1..Len(seq) : seq[i] = x /\ \A j \in 1..(i - 1) : seq[j] # x) - 1
    ELSE 0 - 1

\* A variant of getQueuePosition that does not sort the keys.
getQueuePosition_Unsorted(messages, messageId, readOk) ==
    IF ~readOk THEN 0 - 1
    ELSE IF DOMAIN messages = {} THEN 0 - 1
    ELSE IndexOf(ObjectKeys(DOMAIN messages), messageId)

\* QueueManager.getQueuePosition over the pending partition `messages`;
\* readOk = FALSE is a failed store read (the catch returns -1).
getQueuePosition(messages, messageId, readOk) ==
    IF ~readOk THEN 0 - 1
    ELSE IF DOMAIN messages = {} THEN 0 - 1
    ELSE IndexOf(SortByQueuedAt(ObjectKeys(DOMAIN messages), messages), messageId)

\* A variant of getQueueStatus whose catch block answers with the counts
\* of a store it could not read.
getQueueStatus_CountsOnFailure(readOk) ==
    [totalMessages |-> Cardinality(DOMAIN pending) + Cardinality(processing),
     pendingMessages |-> Cardinality(DOMAIN pending),
     processingMessages |-> Cardinality(processing),
     isProcessing |-> Cardinality(processing) > 0]

\* QueueManager.getQueueStatus; readOk = FALSE is a failed store read.
getQueueStatus(readOk) ==
    IF readOk
    THEN [totalMessages |-> Cardinality(DOMAIN pending) + Cardinality(processing),
          pendingMessages |-> Cardinality(DOMAIN pending),
          processingMessages |-> Cardinality(processing),
          isProcessing |-> Cardinality(processing) > 0]
    ELSE [totalMessages |-> 0, pendingMessages |-> 0,
          processingMessages |-> 0, isProcessing |-> FALSE]

\* The record addMessage writes under pending/<id>.  Its position field is
\* getQueuePosition(id) taken before the write, when id is not yet a key.
QueueRecord(messages, messageId, readOk) ==
    [queuedAt |-> now, status |-> "pending", retryCount |-> 0,
     position |-> getQueuePosition(messages, messageId, readOk)]

\* A variant of addMessage that swallows a rejected set() and returns the
\* result of a successful call.
addMessage_Silent(messages, messageId, writeOk, readOk) ==
    LET written == (messageId :> QueueRecord(messages, messageId, readOk)) @@ messages
    IN [threw |-> FALSE, error |-> NoError,
        pending |-> IF writeOk THEN written ELSE messages,
        written |-> IF writeOk THEN {messageId} ELSE {},
        result |-> [success |-> TRUE, method |-> "queued",
                    messageId |-> messageId,
                    position |-> getQueuePosition(IF writeOk THEN written ELSE messages,
                                                  messageId, readOk),
                    error |-> NoError]]

\* QueueManager.addMessage on the pending partition `messages`.
\* writeOk = FALSE is a rejected set(); the catch rethrows it wrapped.
addMessage(messages, messageId, writeOk, readOk) ==
    LET written == (messageId :> QueueRecord(messages, messageId, readOk)) @@ messages
    IN IF writeOk
       THEN [threw |-> FALSE, error |-> NoError,
             pending |-> written, written |-> {messageId},
             result |-> [success |-> TRUE, method |-> "queued",
                         messageId |-> messageId,
                         position |-> getQueuePosition(written, messageId, readOk),
                         error |-> NoError]]
       ELSE [threw |-> TRUE,
             error |-> Wrap("Failed to queue message", <<"store write failed">>),
             pending |-> messages, written |-> {},
             result |-> [success |-> FALSE, method |-> "none",
                         messageId |-> DirectId, position |-> NoPosition,
                         error |-> NoError]]

\* No record under server_status/heartbeat.
NoHeartbeat == [exists |-> FALSE, alive |-> FALSE, lastSeen |-> 0]

\* isServerAlive as getQueueStatus computes it from the heartbeat record; the
\* value is not part of the status getQueueStatus returns.
isServerAlive ==
    /\ heartbeat.exists
    /\ heartbeat.alive
    /\ (now - heartbeat.lastSeen) < HeartbeatToleranceMs

\* (queueStatus as any).serverAlive: a property the object does not have
\* reads as undefined, which is falsy.
serverAliveOf(queueStatus) ==
    IF "serverAlive" \in DOMAIN queueStatus THEN queueStatus.serverAlive ELSE FALSE

\* What a custom condition of conditionalAdd may be or do: absent, a function
\* returning true or false, a function of the status it is given (true for
\* an empty queue, true for a queue that holds messages), a function that
\* throws an Error, a function that throws null or undefined, or not a
\* function.
Customs ==
    {"none", "true", "false", "empty", "nonEmpty", "throws", "throwsNull", "invalid"}

\* conditions.custom(queueStatus) for the functions that return.
customResult(queueStatus, custom) ==
    CASE custom = "true" -> TRUE
      [] custom = "false" -> FALSE
      [] custom = "empty" -> queueStatus.totalMessages = 0
      [] custom = "nonEmpty" -> queueStatus.totalMessages > 0

\* A variant of evaluateConditions without the try around the call of the
\* custom condition.
evaluateConditions_NoCatch(queueStatus, custom) ==
    IF custom = "none"
    THEN IF ~serverAliveOf(queueStatus)
         THEN [result |-> TRUE, reason |-> "server_offline", threw |-> FALSE]
         ELSE IF queueStatus.totalMessages > 0
         THEN [result |-> TRUE, reason |-> "queue_not_empty", threw |-> FALSE]
         ELSE [result |-> FALSE, reason |-> "server_online_queue_empty", threw |-> FALSE]
    ELSE IF custom \in {"true", "false", "empty", "nonEmpty"}
    THEN [result |-> customResult(queueStatus, custom),
          reason |-> IF customResult(queueStatus, custom)
                     THEN "custom_condition_met" ELSE "custom_condition_failed",
          threw |-> FALSE]
    ELSE IF custom \in {"throws", "throwsNull"}
    THEN [result |-> FALSE, reason |-> "none", threw |-> TRUE]
    ELSE [result |-> FALSE, reason |-> "invalid_conditions", threw |-> FALSE]

\* QueueManager.evaluateConditions.  The catch around the custom condition
\* reads the message of what was thrown: for null or undefined that read
\* throws a TypeError out of evaluateConditions.
evaluateConditions(queueStatus, custom) ==
    IF custom = "none"
    THEN IF ~serverAliveOf(queueStatus)
         THEN [result |-> TRUE, reason |-> "server_offline", threw |-> FALSE]
         ELSE IF queueStatus.totalMessages > 0
         THEN [result |-> TRUE, reason |-> "queue_not_empty", threw |-> FALSE]
         ELSE [result |-> FALSE, reason |-> "server_online_queue_empty", threw |-> FALSE]
    ELSE IF custom \in {"true", "false", "empty", "nonEmpty"}
    THEN [result |-> customResult(queueStatus, custom),
          reason |-> IF customResult(queueStatus, custom)
                     THEN "custom_condition_met" ELSE "custom_condition_failed",
          threw |-> FALSE]
    ELSE IF custom = "throws"
    THEN [result |-> FALSE, reason |-> "custom_condition_error", threw |-> FALSE]
    ELSE IF custom = "throwsNull"
    THEN [result |-> FALSE, reason |-> "none", threw |-> TRUE]
    ELSE [result |-> FALSE, reason |-> "invalid_conditions", threw |-> FALSE]

\* Variants of getMessageStatus: one that does not look in completed, one
\* that looks in processing before pending.
getMessageStatus_NoCompleted(messageId, readOk) ==
    IF ~readOk THEN [status |-> "failed", reason |-> "store read failed"]
    ELSE IF messageId \in DOMAIN pending THEN [status |-> "pending", reason |-> "none"]
    ELSE IF messageId \in processing THEN [status |-> "processing", reason |-> "none"]
    ELSE IF messageId \in failed THEN [status |-> "failed", reason |-> "recorded failure"]
    ELSE [status |-> "failed", reason |-> "Message not found in any queue state"]

getMessageStatus_ProcessingFirst(messageId, readOk) ==
    IF ~readOk THEN [status |-> "failed", reason |-> "store read failed"]
    ELSE IF messageId \in processing THEN [status |-> "processing", reason |-> "none"]
    ELSE IF messageId \in DOMAIN pending THEN [status |-> "pending", reason |-> "none"]
    ELSE IF messageId \in completed THEN [status |-> "sent", reason |-> "none"]
    ELSE IF messageId \in failed THEN [status |-> "failed", reason |-> "recorded failure"]
    ELSE [status |-> "failed", reason |-> "Message not found in any queue state"]

\* The status QueueManager.getMessageStatus reports for messageId: the first
\* of pending, processing, completed, failed that holds it.  readOk = FALSE
\* is a failed store read (the catch reports failed with the error).
getMessageStatus(messageId, readOk) ==
    IF ~readOk THEN [status |-> "failed", reason |-> "store read failed"]
    ELSE IF messageId \in DOMAIN pending THEN [status |-> "pending", reason |-> "none"]
    ELSE IF messageId \in processing THEN [status |-> "processing", reason |-> "none"]
    ELSE IF messageId \in completed THEN [status |-> "sent", reason |-> "none"]
    ELSE IF messageId \in failed THEN [status |-> "failed", reason |-> "recorded failure"]
    ELSE [status |-> "failed", reason |-> "Message not found in any queue state"]

(***************************************************************************)
(* HealthChecker                                                           *)
(***************************************************************************)
\* What a probe of <server>/health can end in.
ProbeOutcomes == {"200", "204", "500", "timeout", "error"}

\* A variant of isCacheValid that still trusts a result whose age equals the
\* lifetime of the cache.
isCacheValid_AtExpiry == cacheLastCheck # 0 /\ (now - cacheLastCheck) <= cacheTimeMs

\* HealthChecker.isCacheValid; lastCheck = 0 stands for null.
isCacheValid == cacheLastCheck # 0 /\ (now - cacheLastCheck) < cacheTimeMs

\* A variant of checkServerHealth that takes every response for health.
checkServerHealth_AnyResponse(probe) == probe \in {"200", "204", "500"}

\* HealthChecker.checkServerHealth: only a response with status 200 resolves true.
checkServerHealth(probe) == probe = "200"

\* HealthChecker.isServerHealthy: the cached result while the cache is valid,
\* otherwise a probe whose result and time are cached.
isServerHealthy(probe) ==
    IF isCacheValid
    THEN [result |-> cacheLastResult, probed |-> FALSE,
          lastCheck |-> cacheLastCheck, lastResult |-> cacheLastResult]
    ELSE [result |-> checkServerHealth(probe), probed |-> TRUE,
          lastCheck |-> now, lastResult |-> checkServerHealth(probe)]

\* What a request of <server>/api/status can end in: a 200 response with a
\* JSON body that holds version and uptime, one whose body holds neither, one
\* whose body is not JSON, another status, a timeout, a network error.
StatusOutcomes == {"200", "200-bare", "200-unparsable", "500", "timeout", "error"}

\* null, and a field that is undefined.
NoApiStatus == [isNull |-> TRUE, version |-> "absent", uptime |-> "absent"]

\* HealthChecker.checkApiStatus: the parsed body of a 200 response, null for
\* everything else.
checkApiStatus(outcome) ==
    CASE outcome = "200" ->
           [isNull |-> FALSE, version |-> "1.0.0", uptime |-> "3600"]
      [] outcome = "200-bare" ->
           [NoApiStatus EXCEPT !.isNull = FALSE]
      [] OTHER -> NoApiStatus

\* A variant of getDetailedStatus that reports health only when the status
\* request succeeded too.
getDetailedStatus_NeedsApiStatus(probe, outcome) ==
    LET healthCheck == checkServerHealth(probe)
        apiStatus == checkApiStatus(outcome)
    IN [threw |-> FALSE, isHealthy |-> healthCheck /\ ~apiStatus.isNull,
        version |-> apiStatus.version, uptime |-> apiStatus.uptime]

\* HealthChecker.getDetailedStatus: both requests are made, past the cache,
\* and neither can reject Promise.all, each promise having its own catch;
\* version and uptime are read off the status with `?.`.
getDetailedStatus(probe, outcome) ==
    LET healthCheck == checkServerHealth(probe)
        apiStatus == checkApiStatus(outcome)
    IN [threw |-> FALSE, isHealthy |-> healthCheck,
        version |-> apiStatus.version, uptime |-> apiStatus.uptime]

(***************************************************************************)
(* ApiClient                                                               *)
(***************************************************************************)
\* What POST /api/send-message can end in: accepted, a 2xx response with
\* success = false, or a network error / timeout / non-2xx status.
ApiOutcomes == {"ok", "rejected", "network"}

\* ApiClient.sendMessage: every failure is rethrown wrapped.
ApiClient_sendMessage(api) ==
    IF api = "ok"
    THEN [threw |-> FALSE, error |-> NoError, messageId |-> DirectId]
    ELSE [threw |-> TRUE, error |-> Wrap("API request failed", <<api>>),
          messageId |-> DirectId]

(***************************************************************************)
(* WhatsAppConnection: the part the router calls                           *)
(***************************************************************************)
\* What sock.sendMessage can end in.
SocketOutcomes == {"ok", "failed"}

\* A variant of WhatsAppConnection.sendMessage without the test of the
\* connection.
WhatsAppConnection_sendMessage_Unguarded(wa) ==
    IF wa = "ok"
    THEN [threw |-> FALSE, error |-> NoError, dispatched |-> TRUE]
    ELSE [threw |-> TRUE, error |-> <<"socket send failed">>, dispatched |-> TRUE]

\* WhatsAppConnection.sendMessage: refuses without touching the socket unless
\* isConnected and a socket exists; a socket error is rethrown as it is.
WhatsAppConnection_sendMessage(wa) ==
    IF ~isConnected \/ ~sock
    THEN [threw |-> TRUE, error |-> <<"WhatsApp not connected">>, dispatched |-> FALSE]
    ELSE IF wa = "ok"
    THEN [threw |-> FALSE, error |-> NoError, dispatched |-> TRUE]
    ELSE [threw |-> TRUE, error |-> <<"socket send failed">>, dispatched |-> TRUE]

\* What sock.chatModify(...).catch(() => null) can yield: a value, or null
\* (also when the request is rejected).
HistoryOutcomes == {"messages", "null"}

\* WhatsAppConnection.getMessageHistory: the same test of the connection;
\* behind it both outcomes of the request are reported as a success.
WhatsAppConnection_getMessageHistory(history) ==
    IF ~isConnected \/ ~sock
    THEN [threw |-> TRUE, error |-> <<"WhatsApp not connected">>, dispatched |-> FALSE]
    ELSE [threw |-> FALSE, error |-> NoError, dispatched |-> TRUE]

(***************************************************************************)
(* Whaple (the router)                                                     *)
(***************************************************************************)
\* Destinations are strings, written as sequences of characters.
Digits == {"0", "1", "2", "3", "4", "5", "6", "7", "8", "9"}

\* number.toString().replace(/[^\d+]/g, '')
RECURSIVE StripNonDigitPlus(_)
StripNonDigitPlus(number) ==
    IF number = <<>> THEN <<>>
    ELSE IF Head(number) \in Digits \cup {"+"}
         THEN <<Head(number)>> \o StripNonDigitPlus(Tail(number))
         ELSE StripNonDigitPlus(Tail(number))

\* normalizePhoneNumber adding the prefix without looking for one.
normalizePhoneNumber_AlwaysPrefix(number) ==
    <<"+">> \o StripNonDigitPlus(number)

\* Whaple.normalizePhoneNumber for a non-empty number (the empty one throws).
normalizePhoneNumber(number) ==
    LET normalized == StripNonDigitPlus(number)
    IN IF normalized # <<>> /\ Head(normalized) = "+"
       THEN normalized
       ELSE <<"+">> \o normalized

\* The argument of the constructor, by what it holds for each field: a
\* value, nothing, or the key with an empty value ('' , null, undefined).  The
\* environment of the process, by the variables that are set; the service
\* account of the environment is JSON text that may not parse.
Fields == {"given", "omitted", "empty"}

Configs ==
    [useDirectWhatsApp : BOOLEAN, whatsappServerUrl : Fields,
     apiKey : Fields, firebaseConfig : Fields]

Envs ==
    [WHATSAPP_SERVER_URL : BOOLEAN, WHATSAPP_API_KEY : BOOLEAN,
     FIREBASE_SERVICE_ACCOUNT : {"unset", "valid", "invalid"}]

NoConfig ==
    [useDirectWhatsApp |-> FALSE, whatsappServerUrl |-> "omitted",
     apiKey |-> "omitted", firebaseConfig |-> "omitted"]

NoEnv ==
    [WHATSAPP_SERVER_URL |-> FALSE, WHATSAPP_API_KEY |-> FALSE,
     FIREBASE_SERVICE_ACCOUNT |-> "unset"]

\* Whaple.parseFirebaseConfig: the parsed variable, null when it is unset or
\* does not parse.  TRUE stands for a service account, FALSE for null.
parseFirebaseConfig(env) == env.FIREBASE_SERVICE_ACCOUNT = "valid"

\* this.config as the constructor builds it, by the fields that hold a
\* value: a field of the argument, else the variable of the environment, else
\* '' or null; the trailing `...config` then puts back every key the argument
\* holds, an empty one included.
MergedConfig(config, env) ==
    LET Merged(field, fallback) ==
          IF field = "omitted" THEN fallback ELSE field = "given"
    IN [useDirectWhatsApp |-> config.useDirectWhatsApp,
        whatsappServerUrl |-> Merged(config.whatsappServerUrl, env.WHATSAPP_SERVER_URL),
        apiKey |-> Merged(config.apiKey, env.WHATSAPP_API_KEY),
        firebaseConfig |-> Merged(config.firebaseConfig, parseFirebaseConfig(env))]

\* A variant of validateConfig without the test of the API key.
validateConfig_NoApiKeyTest(c) ==
    IF ~c.useDirectWhatsApp /\ ~c.whatsappServerUrl
    THEN <<"ConfigurationError", "WhatsApp server URL is required when not using direct WhatsApp connection">>
    ELSE IF ~c.firebaseConfig
    THEN <<"ConfigurationError", "Firebase configuration is required">>
    ELSE <<>>

\* Whaple.validateConfig: the error it throws, none when it returns.
validateConfig(c) ==
    IF ~c.useDirectWhatsApp /\ ~c.whatsappServerUrl
    THEN <<"ConfigurationError", "WhatsApp server URL is required when not using direct WhatsApp connection">>
    ELSE IF ~c.useDirectWhatsApp /\ ~c.apiKey
    THEN <<"ConfigurationError", "API key is required when not using direct WhatsApp connection">>
    ELSE IF ~c.firebaseConfig
    THEN <<"ConfigurationError", "Firebase configuration is required">>
    ELSE <<>>

\* What the Firebase calls of initializeServices can end in: an app named
\* 'whatsapp-sdk' exists already or not, initializeApp returns or throws,
\* admin.database returns or throws.
FirebaseOutcomes == [existingApp : BOOLEAN, initializeOk : BOOLEAN, databaseOk : BOOLEAN]

\* Whaple.initializeServices: the error it throws and what it has initialised
\* by then.  An app that initializeApp has registered stays registered when
\* admin.database throws.
initializeServices(c, firebase) ==
    LET app == IF firebase.existingApp \/ ~firebase.initializeOk THEN {}
               ELSE {"firebaseApp"}
    IN IF ~firebase.existingApp /\ ~firebase.initializeOk
       THEN [error |-> <<"ConfigurationError", "Firebase initialization failed">>,
             services |-> {}]
       ELSE IF ~firebase.databaseOk
       THEN [error |-> <<"ConfigurationError", "Firebase initialization failed">>,
             services |-> app]
       ELSE [error |-> <<>>,
             services |-> app \cup {"database", "healthChecker", "queueManager"}
                          \cup (IF c.useDirectWhatsApp THEN {"whatsappConnection"}
                                ELSE {"apiClient"})]

\* new Whaple(config): validateConfig, then initializeServices.
Whaple_constructor(config, env, firebase) ==
    LET c == MergedConfig(config, env)
        invalid == validateConfig(c)
        init == initializeServices(c, firebase)
    IN IF invalid # <<>>
       THEN [threw |-> TRUE, error |-> invalid, services |-> {}]
       ELSE [threw |-> init.error # <<>>, error |-> init.error,
             services |-> init.services]

NoResult ==
    [success |-> FALSE, method |-> "none", messageId |-> DirectId,
     position |-> NoPosition, error |-> NoError]

\* What a call has done so far: nothing.  The fields up to `written` are the
\* observable trace of the call, the last three the state it leaves.
Untouched ==
    [threw |-> FALSE, error |-> NoError, result |-> NoResult,
     healthQueried |-> FALSE, probed |-> FALSE, probe |-> "none", healthy |-> FALSE,
     statusQueried |-> FALSE, statusReadOk |-> FALSE,
     pendingSeen |-> 0, processingSeen |-> 0,
     totalSeen |-> 0, isProcessingSeen |-> FALSE, serverAliveSeen |-> FALSE,
     apiCalled |-> FALSE, apiOk |-> FALSE,
     waCalled |-> FALSE, waDispatched |-> FALSE, waOk |-> FALSE,
     directError |-> NoError,
     adds |-> <<>>, written |-> {}, positionReadOk |-> FALSE,
     queried |-> 0, readOk |-> FALSE, status |-> "none", reason |-> "none",
     custom |-> "none",
     connection |-> "none", statusCode |-> "none", connectOk |-> FALSE, qr |-> 0,
     number |-> <<>>, message |-> <<>>, normalized |-> <<>>, applications |-> 0,
     apiStatus |-> "none", version |-> "absent", uptime |-> "absent",
     config |-> NoConfig, env |-> NoEnv, services |-> {},
     delay |-> 0,
     pending |-> pending, lastCheck |-> cacheLastCheck, lastResult |-> cacheLastResult]

\* A call of queueManager.addMessage made by the router on top of what the
\* call `o` has done so far.
Enqueue(o, messageId, writeOk, readOk) ==
    LET q == addMessage(o.pending, messageId, writeOk, readOk)
    IN [o EXCEPT !.threw = q.threw, !.error = q.error, !.result = q.result,
                 !.adds = o.adds \o <<~q.threw>>,
                 !.positionReadOk = readOk,
                 !.written = o.written \cup q.written,
                 !.pending = q.pending]

\* QueueManager.conditionalAdd: the queue status, the conditions, and the
\* addMessage they allow; what the try block throws is rethrown wrapped.
conditionalAdd(o, e) ==
    LET queueStatus == getQueueStatus(e.statusOk)
        shouldAdd == evaluateConditions(queueStatus, e.custom)
        seen == [o EXCEPT !.statusQueried = TRUE, !.statusReadOk = e.statusOk,
                          !.pendingSeen = queueStatus.pendingMessages,
                          !.processingSeen = queueStatus.processingMessages,
                          !.custom = e.custom, !.reason = shouldAdd.reason]
        q == Enqueue(seen, e.id1, e.w1, e.posOk)
    IN IF shouldAdd.threw
       THEN [seen EXCEPT !.threw = TRUE,
                         !.error = Wrap("Conditional add failed", <<"TypeError">>)]
       ELSE IF shouldAdd.result
       THEN IF q.threw
            THEN [q EXCEPT !.error = Wrap("Conditional add failed", q.error)]
            ELSE [q EXCEPT !.result.success = TRUE, !.result.method = "queued"]
       ELSE [seen EXCEPT !.result = [NoResult EXCEPT !.method = "condition_failed"]]

\* Variants of fallbackResult: one that drops the error of the direct path,
\* one that reports the fallback as a failure.
fallbackResult_Plain(queueResult, error) == queueResult

fallbackResult_Failure(queueResult, error) ==
    [queueResult EXCEPT !.success = FALSE, !.error = Wrap("Fallback", error)]

\* The object sendDirectWithFallback returns after a fallback: the fields of
\* the addMessage result and the error of the direct path.
fallbackResult(queueResult, error) ==
    [success |-> queueResult.success, method |-> queueResult.method,
     messageId |-> queueResult.messageId,
     position |-> queueResult.position,
     error |-> Wrap("Fallback", error)]

\* Whaple.sendDirectWithFallback: the API send, and on its failure one
\* addMessage whose result is returned with the API error attached.
sendDirectWithFallback(o, e) ==
    LET api == ApiClient_sendMessage(e.api)
        sent == [o EXCEPT !.apiCalled = TRUE, !.apiOk = ~api.threw,
                          !.directError = api.error]
        q == Enqueue(sent, e.id1, e.w1, e.posOk)
    IN IF ~api.threw
       THEN [sent EXCEPT !.result =
                [success |-> TRUE, method |-> "direct", messageId |-> api.messageId,
                 position |-> NoPosition, error |-> NoError]]
       ELSE IF ~q.threw
       THEN [q EXCEPT !.result = fallbackResult(q.result, api.error)]
       ELSE q

\* A variant of shouldUseQueue that looks at the health of the server only.
shouldUseQueue_HealthOnly(healthy, queueStatus) == ~healthy

\* The routing condition of smartRoutingDecision.
shouldUseQueue(healthy, queueStatus) ==
    \/ ~healthy
    \/ queueStatus.pendingMessages > queueThreshold
    \/ queueStatus.processingMessages > 0

\* The try block of Whaple.smartRoutingDecision: health, queue status, and
\* the route they select.
smartRoutingTry(o, e) ==
    LET h == isServerHealthy(e.probe)
        queueStatus == getQueueStatus(e.statusOk)
        seen == [o EXCEPT !.healthQueried = TRUE, !.probed = h.probed,
                          !.probe = IF h.probed THEN e.probe ELSE "none",
                          !.healthy = h.result,
                          !.lastCheck = h.lastCheck, !.lastResult = h.lastResult,
                          !.statusQueried = TRUE, !.statusReadOk = e.statusOk,
                          !.pendingSeen = queueStatus.pendingMessages,
                          !.processingSeen = queueStatus.processingMessages]
    IN IF shouldUseQueue(h.result, queueStatus)
       THEN Enqueue(seen, e.id1, e.w1, e.posOk)
       ELSE sendDirectWithFallback(seen, e)

\* A variant of smartRoutingDecision without its catch block.
smartRoutingDecision_NoCatch(o, e) == smartRoutingTry(o, e)

\* A variant of smartRoutingDecision that enqueues after its try block
\* whether or not the block threw.
smartRoutingDecision_AlwaysEnqueue(o, e) ==
    Enqueue(smartRoutingTry(o, e), e.id2, e.w2, e.posOk)

\* Whaple.smartRoutingDecision: the try block, and the catch that enqueues
\* when anything in it threw.
smartRoutingDecision(o, e) ==
    LET first == smartRoutingTry(o, e)
    IN IF first.threw
       THEN Enqueue(first, e.id2, e.w2, e.posOk)
       ELSE first

\* A variant of queueMessage that routes like sendMessage under smart routing.
queueMessage_Routed(o, e) == smartRoutingDecision(o, e)

\* Whaple.queueMessage after its normalizePhoneNumber: one addMessage.
queueMessage(o, e) == Enqueue(o, e.id1, e.w1, e.posOk)

\* A variant of the direct-WhatsApp branch that calls the channel whatever
\* its state, so that a channel that is not connected makes the call throw.
sendViaWhatsApp_NoStatusTest(o, e) ==
    LET wa == WhatsAppConnection_sendMessage(e.wa)
    IN [o EXCEPT !.waCalled = TRUE, !.waDispatched = wa.dispatched,
                 !.waOk = ~wa.threw, !.directError = wa.error,
                 !.threw = wa.threw, !.error = wa.error,
                 !.result = IF wa.threw THEN NoResult
                            ELSE [NoResult EXCEPT !.success = TRUE, !.method = "direct"]]

\* The direct-WhatsApp branch of Whaple.sendMessage.
sendViaWhatsApp(o, e) ==
    IF isConnected /\ isAuthenticated
    THEN LET wa == WhatsAppConnection_sendMessage(e.wa)
             sent == [o EXCEPT !.waCalled = TRUE, !.waDispatched = wa.dispatched,
                               !.waOk = ~wa.threw, !.directError = wa.error]
         IN IF ~wa.threw
            THEN [sent EXCEPT !.result =
                     [success |-> TRUE, method |-> "direct", messageId |-> DirectId,
                      position |-> NoPosition, error |-> NoError]]
            ELSE Enqueue(sent, e.id1, e.w1, e.posOk)
    ELSE Enqueue(o, e.id1, e.w1, e.posOk)

\* The try block of Whaple.sendMessage and its catch, which rethrows wrapped.
sendMessage(o, e) ==
    LET r == IF useDirectWhatsApp THEN sendViaWhatsApp(o, e)
             ELSE IF enableSmartRouting THEN smartRoutingDecision(o, e)
             ELSE queueMessage(o, e)
    IN IF r.threw
       THEN [r EXCEPT !.error = Wrap("Failed to send message", r.error)]
       ELSE r

\* A variant of sendDirect that falls back to the queue.
sendDirect_WithFallback(o, e) == sendDirectWithFallback(o, e)

\* Whaple.sendDirect after its normalizePhoneNumber: apiClient.sendMessage and
\* nothing else.  In direct-WhatsApp mode no apiClient exists and the call is
\* a TypeError.
sendDirect(o, e) ==
    LET api == ApiClient_sendMessage(e.api)
    IN IF useDirectWhatsApp
       THEN [o EXCEPT !.threw = TRUE, !.error = <<"TypeError">>]
       ELSE [o EXCEPT !.apiCalled = TRUE, !.apiOk = ~api.threw,
                      !.directError = api.error,
                      !.threw = api.threw, !.error = api.error,
                      !.result = IF api.threw THEN NoResult
                                 ELSE [success |-> TRUE, method |-> "none",
                                       messageId |-> api.messageId,
                                       position |-> NoPosition, error |-> NoError]]

\* normalizePhoneNumber throws for a missing number before anything else runs.
ValidationError(o) ==
    [o EXCEPT !.threw = TRUE, !.error = <<"ValidationError", "Phone number is required">>]

(***************************************************************************)
(* SDK calls as actions                                                    *)
(***************************************************************************)
\* The destinations a caller passes: a missing one, a well-formed one and one
\* that holds no digit.
Numbers == {<<>>, <<"1", "2">>, <<"a">>}

\* The message bodies a caller passes: an empty one and a text.
Messages == {<<>>, <<"h", "i">>}

\* The record kept of a completed call: its name and its trace.
Call(op, o) ==
    [op |-> op, threw |-> o.threw, error |-> o.error, result |-> o.result,
     healthQueried |-> o.healthQueried, probed |-> o.probed, probe |-> o.probe,
     healthy |-> o.healthy,
     statusQueried |-> o.statusQueried, statusReadOk |-> o.statusReadOk,
     pendingSeen |-> o.pendingSeen, processingSeen |-> o.processingSeen,
     totalSeen |-> o.totalSeen, isProcessingSeen |-> o.isProcessingSeen,
     serverAliveSeen |-> o.serverAliveSeen,
     apiCalled |-> o.apiCalled, apiOk |-> o.apiOk,
     waCalled |-> o.waCalled, waDispatched |-> o.waDispatched, waOk |-> o.waOk,
     directError |-> o.directError,
     adds |-> o.adds, written |-> o.written, positionReadOk |-> o.positionReadOk,
     queried |-> o.queried, readOk |-> o.readOk, status |-> o.status,
     reason |-> o.reason, custom |-> o.custom,
     connection |-> o.connection, statusCode |-> o.statusCode,
     connectOk |-> o.connectOk, qr |-> o.qr,
     number |-> o.number, message |-> o.message, normalized |-> o.normalized,
     applications |-> o.applications,
     apiStatus |-> o.apiStatus, version |-> o.version, uptime |-> o.uptime,
     config |-> o.config, env |-> o.env, services |-> o.services,
     delay |-> o.delay,
     pendingBefore |-> IF op = "none" THEN {} ELSE DOMAIN pending]

NoCall == Call("none", [Untouched EXCEPT !.pending = <<>>, !.lastCheck = 0,
                                         !.lastResult = FALSE])

\* The state a completed call leaves.
Complete(op, o) ==
    /\ pending' = o.pending
    /\ cacheLastCheck' = o.lastCheck
    /\ cacheLastResult' = o.lastResult
    /\ last' = Call(op, o)
    /\ UNCHANGED <<configVars, heartbeat, processing, completed, failed, cacheTimeMs, waVars, now>>

\* The outcomes of the I/O of a call in which every request succeeds.
AllGood ==
    [probe |-> "200", statusOk |-> TRUE, api |-> "ok", wa |-> "ok",
     w1 |-> TRUE, w2 |-> TRUE, posOk |-> TRUE, id1 |-> 0, id2 |-> 0,
     custom |-> "none"]

\* The call `op` with every outcome its I/O can have.  The outcomes are drawn
\* in the order the call consults them, and one is drawn only when the call
\* gets to that request: first the reads of the routing decision, then the
\* send, then the first write, then the write of the catch block.
RunOn(op, start) ==
    LET Outcomes(F(_, _)) ==
          LET oA == F(start, AllGood)
          IN \E probe \in (IF oA.probed THEN ProbeOutcomes ELSE {AllGood.probe}),
                statusOk \in (IF oA.statusQueried THEN BOOLEAN ELSE {TRUE}) :
               LET e0 == [AllGood EXCEPT !.probe = probe, !.statusOk = statusOk]
                   o0 == F(start, e0)
               IN \E api \in (IF o0.apiCalled THEN ApiOutcomes ELSE {AllGood.api}),
                     wa \in (IF o0.waDispatched THEN SocketOutcomes ELSE {AllGood.wa}) :
                    LET e1 == [e0 EXCEPT !.api = api, !.wa = wa]
                        o1 == F(start, e1)
                    IN IF o1.adds = <<>>
                       THEN Complete(op, o1)
                       ELSE \E id \in FreshIds, w1 \in BOOLEAN, posOk \in BOOLEAN :
                              LET e2 == [e1 EXCEPT !.id1 = id, !.id2 = id,
                                                   !.w1 = w1, !.posOk = posOk]
                                  o2 == F(start, e2)
                              IN IF Len(o2.adds) < 2
                                 THEN Complete(op, o2)
                                 ELSE \E w2 \in BOOLEAN :
                                        Complete(op, F(start, [e2 EXCEPT !.w2 = w2]))
    IN CASE op = "sendMessage" -> Outcomes(sendMessage)
         [] op = "queueMessage" -> Outcomes(queueMessage)
         [] op = "sendDirect" -> Outcomes(sendDirect)
         [] op = "conditionalAdd" ->
              \E custom \in Customs :
                 Outcomes(LAMBDA o, e : conditionalAdd(o, [e EXCEPT !.custom = custom]))

\* A call that takes no destination.
Run(op) == RunOn(op, Untouched)

\* A call of the router as it starts, holding the arguments it was given.
Started(number, message) ==
    [Untouched EXCEPT !.number = number, !.message = message]

\* messageData.number once normalizePhoneNumber has returned.
Normalized(o) == [o EXCEPT !.normalized = normalizePhoneNumber(o.number)]

\* A missing destination: normalizePhoneNumber throws before the call does
\* anything else.
Rejected(op, o) == Complete(op, ValidationError(o))

SendMessage ==
    /\ last = NoCall
    /\ \E number \in Numbers, message \in Messages :
         IF number = <<>> THEN Rejected("sendMessage", Started(number, message))
         ELSE RunOn("sendMessage", Normalized(Started(number, message)))

QueueMessage ==
    /\ last = NoCall
    /\ \E number \in Numbers, message \in Messages :
         IF number = <<>> THEN Rejected("queueMessage", Started(number, message))
         ELSE RunOn("queueMessage", Normalized(Started(number, message)))

\* sendDirect reads this.apiClient.sendMessage before it normalizes the number:
\* in direct-WhatsApp mode the TypeError comes first.
SendDirect ==
    /\ last = NoCall
    /\ \E number \in Numbers, message \in Messages :
         IF useDirectWhatsApp
         THEN RunOn("sendDirect", Started(number, message))
         ELSE IF number = <<>>
         THEN Rejected("sendDirect", Started(number, message))
         ELSE RunOn("sendDirect", Normalized(Started(number, message)))

\* The trace of a call made on the channel itself, with what it returned.
ChannelCall(r) ==
    [Untouched EXCEPT
        !.waCalled = TRUE, !.waDispatched = r.dispatched, !.waOk = ~r.threw,
        !.threw = r.threw, !.error = r.error,
        !.result = IF r.threw THEN NoResult
                   ELSE [NoResult EXCEPT !.success = TRUE, !.method = "direct"]]

\* WhatsAppConnection.sendMessage called on the channel.
ChannelSendMessage ==
    /\ last = NoCall
    /\ useDirectWhatsApp
    /\ \E wa \in (IF isConnected /\ sock THEN SocketOutcomes ELSE {AllGood.wa}) :
         Complete("WhatsAppConnection.sendMessage",
                  ChannelCall(WhatsAppConnection_sendMessage(wa)))

\* Whaple.getMessageHistory in direct-WhatsApp mode: the call of
\* WhatsAppConnection.getMessageHistory.
GetMessageHistory ==
    /\ last = NoCall
    /\ useDirectWhatsApp
    /\ \E history \in (IF isConnected /\ sock THEN HistoryOutcomes ELSE {"null"}) :
         Complete("WhatsAppConnection.getMessageHistory",
                  ChannelCall(WhatsAppConnection_getMessageHistory(history)))

\* HealthChecker.isServerHealthy called on its own.
IsServerHealthy ==
    /\ last = NoCall
    /\ \E probe \in (IF isCacheValid THEN {AllGood.probe} ELSE ProbeOutcomes) :
         LET h == isServerHealthy(probe)
         IN Complete("isServerHealthy",
                [Untouched EXCEPT
                    !.healthQueried = TRUE, !.probed = h.probed,
                    !.probe = IF h.probed THEN probe ELSE "none",
                    !.healthy = h.result,
                    !.lastCheck = h.lastCheck, !.lastResult = h.lastResult])

\* HealthChecker.getDetailedStatus; the cache is neither read nor written.
GetDetailedStatus ==
    /\ last = NoCall
    /\ \E probe \in ProbeOutcomes, outcome \in StatusOutcomes :
         LET d == getDetailedStatus(probe, outcome)
         IN Complete("getDetailedStatus",
                [Untouched EXCEPT
                    !.probed = TRUE, !.probe = probe, !.apiStatus = outcome,
                    !.threw = d.threw, !.healthy = d.isHealthy,
                    !.version = d.version, !.uptime = d.uptime])

\* The cache lifetimes a caller sets.
CacheTimes == {DefaultCacheTimeMs, 2 * DefaultCacheTimeMs}

\* HealthChecker.setCacheTime
SetCacheTime ==
    /\ last = NoCall
    /\ \E t \in CacheTimes : t # cacheTimeMs /\ cacheTimeMs' = t
    /\ UNCHANGED <<configVars, heartbeat, storeVars, cacheLastCheck, cacheLastResult,
                   waVars, now, last>>

\* HealthChecker.clearCache
ClearCache ==
    /\ last = NoCall
    /\ cacheLastCheck # 0
    /\ cacheLastCheck' = 0 /\ cacheLastResult' = FALSE
    /\ UNCHANGED <<configVars, heartbeat, storeVars, cacheTimeMs, waVars, now, last>>

\* QueueManager.getQueueStatus called on its own; the trace keeps the
\* status it returns and what a reader of its serverAlive property gets.
GetQueueStatus ==
    /\ last = NoCall
    /\ \E readOk \in BOOLEAN :
         LET queueStatus == getQueueStatus(readOk)
         IN Complete("getQueueStatus",
                [Untouched EXCEPT
                    !.statusQueried = TRUE, !.statusReadOk = readOk,
                    !.pendingSeen = queueStatus.pendingMessages,
                    !.processingSeen = queueStatus.processingMessages,
                    !.totalSeen = queueStatus.totalMessages,
                    !.isProcessingSeen = queueStatus.isProcessing,
                    !.serverAliveSeen = serverAliveOf(queueStatus)])

\* QueueManager.conditionalAdd
ConditionalAdd ==
    /\ last = NoCall
    /\ Run("conditionalAdd")

\* conditionalAdd in two steps, for what other processes do between its two
\* awaits.  A call that has read the queue status and found its conditions
\* met is waiting to run addMessage.
Awaiting == last.op = "conditionalAdd.evaluated"

\* conditionalAdd up to addMessage: getQueueStatus and evaluateConditions.  A
\* call whose conditions are not met, or throw, ends here.
ConditionalAddEvaluates ==
    /\ last = NoCall
    /\ \E statusOk \in BOOLEAN, custom \in Customs :
         LET e == [AllGood EXCEPT !.statusOk = statusOk, !.custom = custom]
             queueStatus == getQueueStatus(statusOk)
             shouldAdd == evaluateConditions(queueStatus, custom)
         IN IF shouldAdd.threw \/ ~shouldAdd.result
            THEN Complete("conditionalAdd", conditionalAdd(Untouched, e))
            ELSE /\ last' = Call("conditionalAdd.evaluated",
                               [Untouched EXCEPT
                                   !.statusQueried = TRUE, !.statusReadOk = statusOk,
                                   !.pendingSeen = queueStatus.pendingMessages,
                                   !.processingSeen = queueStatus.processingMessages,
                                   !.custom = custom, !.reason = shouldAdd.reason])
                 /\ UNCHANGED <<configVars, heartbeat, storeVars, healthVars,
                                waVars, now>>

\* conditionalAdd from addMessage on, in the store as it is by then.
ConditionalAddWrites ==
    /\ Awaiting
    /\ \E id \in FreshIds, writeOk \in BOOLEAN, posOk \in BOOLEAN :
         LET seen == [Untouched EXCEPT
                         !.statusQueried = TRUE, !.statusReadOk = last.statusReadOk,
                         !.pendingSeen = last.pendingSeen,
                         !.processingSeen = last.processingSeen,
                         !.custom = last.custom, !.reason = last.reason]
             q == Enqueue(seen, id, writeOk, posOk)
         IN Complete("conditionalAdd",
                IF q.threw
                THEN [q EXCEPT !.error = Wrap("Conditional add failed", q.error)]
                ELSE [q EXCEPT !.result.success = TRUE, !.result.method = "queued"])

\* addMessage of another caller completes while conditionalAdd waits.
ConcurrentAddMessage ==
    /\ Awaiting
    /\ Cardinality(FreshIds) > 1
    /\ \E id \in FreshIds : pending' = addMessage(pending, id, TRUE, TRUE).pending
    /\ UNCHANGED <<configVars, heartbeat, processing, completed, failed,
                   healthVars, waVars, now, last>>

\* QueueManager.getMessageStatus for any id, known to the store or not.
GetMessageStatus ==
    /\ last = NoCall
    /\ \E messageId \in Ids, readOk \in BOOLEAN :
         LET s == getMessageStatus(messageId, readOk)
         IN \E posOk \in (IF s.status = "pending" THEN BOOLEAN ELSE {TRUE}) :
              Complete("getMessageStatus",
                  [Untouched EXCEPT
                      !.queried = messageId, !.readOk = readOk,
                      !.status = s.status, !.reason = s.reason,
                      !.positionReadOk = posOk /\ s.status = "pending",
                      !.result.position =
                          IF s.status = "pending"
                          THEN getQueuePosition(pending, messageId, posOk)
                          ELSE NoPosition])

\* QueueManager.getQueuePosition for any id.
GetQueuePosition ==
    /\ last = NoCall
    /\ \E messageId \in Ids, readOk \in BOOLEAN :
         Complete("getQueuePosition",
             [Untouched EXCEPT
                 !.queried = messageId, !.readOk = readOk,
                 !.positionReadOk = readOk,
                 !.result.position = getQueuePosition(pending, messageId, readOk)])

\* The call, the handler or the callback returns.
Return ==
    /\ last # NoCall /\ ~Awaiting
    /\ last' = NoCall
    /\ UNCHANGED <<configVars, heartbeat, storeVars, healthVars, waVars, now>>

(***************************************************************************)
(* WhatsAppConnection: the life cycle of the connection                    *)
(***************************************************************************)
\* The fields of the connection.  reconnectTimeout is the timer handle the
\* object keeps: "none" (undefined), "armed", or "fired" (a handle whose
\* callback has run).  reconnectTimers counts the reconnect callbacks that
\* have not run yet, whether or not the handle still refers to them, and
\* restartTimers the delayed scheduleReconnect calls of a required restart.
\* armed tells whether the step under way has armed a reconnect timer.
Connection ==
    [sock |-> sock, isConnected |-> isConnected, isAuthenticated |-> isAuthenticated,
     connectionState |-> connectionState, reconnectAttempts |-> reconnectAttempts,
     isReconnecting |-> isReconnecting, reconnectTimeout |-> reconnectTimeout,
     currentQR |-> currentQR, reconnectTimers |-> reconnectTimers,
     restartTimers |-> restartTimers, armed |-> FALSE]

\* The values Math.random() * 1000 may take, to the millisecond: the least
\* and the greatest.
Jitters == {0, JitterMs - 1}

Min(a, b) == IF a <= b THEN a ELSE b

\* A variant of calculateReconnectDelay whose base grows by one step for
\* every attempt instead of doubling.
calculateReconnectDelay_Linear(attempts, jitter) ==
    Min(BASE_RECONNECT_DELAY * (attempts + 1), MAX_RECONNECT_DELAY) + jitter

\* WhatsAppConnection.calculateReconnectDelay
calculateReconnectDelay(attempts, jitter) ==
    Min(BASE_RECONNECT_DELAY * 2^attempts, MAX_RECONNECT_DELAY) + jitter

\* A variant of scheduleReconnect without the ceiling on the attempts.
scheduleReconnect_NoCeiling(c) ==
    IF c.isReconnecting
    THEN c
    ELSE [c EXCEPT !.isReconnecting = TRUE, !.reconnectTimeout = "armed",
                   !.reconnectTimers = @ + 1, !.armed = TRUE]

\* WhatsAppConnection.scheduleReconnect
scheduleReconnect(c) ==
    IF c.reconnectAttempts >= MAX_RECONNECT_ATTEMPTS
    THEN [c EXCEPT !.isReconnecting = FALSE]
    ELSE IF c.isReconnecting
    THEN c
    ELSE [c EXCEPT !.isReconnecting = TRUE, !.reconnectTimeout = "armed",
                   !.reconnectTimers = @ + 1, !.armed = TRUE]

\* WhatsAppConnection.resetReconnectState: clearTimeout reaches only the
\* timer the handle refers to.
resetReconnectState(c) ==
    [c EXCEPT !.reconnectAttempts = 0, !.isReconnecting = FALSE,
              !.reconnectTimeout = "none",
              !.reconnectTimers = IF c.reconnectTimeout = "armed" THEN @ - 1 ELSE @]

\* WhatsAppConnection.connect; ok = FALSE is a failure to load the
\* authentication state or to create the socket.
connect(c, ok) ==
    IF ok
    THEN [c EXCEPT !.sock = TRUE]
    ELSE scheduleReconnect([c EXCEPT !.isConnected = FALSE, !.isAuthenticated = FALSE])

\* What the socket reports when it closes.
DisconnectReasons == {"loggedOut", "restartRequired", "connectionLost"}

\* A variant of the handler whose open branch leaves the reconnect state alone.
onConnectionUpdate_OpenKeepsReconnect(c, connection, statusCode, qr) ==
    LET shown == IF qr # 0 /\ c.connectionState # "waiting_for_qr"
                 THEN resetReconnectState(
                          [c EXCEPT !.currentQR = qr,
                                    !.connectionState = "waiting_for_qr",
                                    !.isAuthenticated = FALSE, !.isConnected = FALSE])
                 ELSE c
        shouldReconnect == statusCode # "loggedOut"
        closed == [shown EXCEPT !.isConnected = FALSE,
                                !.connectionState = "disconnected",
                                !.isReconnecting = FALSE]
    IN CASE connection = "close" ->
              IF statusCode = "loggedOut"
              THEN resetReconnectState(
                       [closed EXCEPT !.isAuthenticated = FALSE, !.currentQR = 0])
              ELSE IF statusCode = "restartRequired"
              THEN [closed EXCEPT !.reconnectAttempts = 0, !.restartTimers = @ + 1]
              ELSE IF shouldReconnect /\ ~closed.isReconnecting
              THEN scheduleReconnect(closed)
              ELSE resetReconnectState(closed)
         [] connection = "open" ->
              [shown EXCEPT !.isConnected = TRUE, !.isAuthenticated = TRUE,
                            !.connectionState = "connected", !.currentQR = 0]
         [] connection = "connecting" ->
              [shown EXCEPT !.connectionState = "connecting", !.isConnected = FALSE]
         [] OTHER -> shown

\* The handler of "connection.update"; qr = 0 is an update without a code.
onConnectionUpdate(c, connection, statusCode, qr) ==
    LET shown == IF qr # 0 /\ c.connectionState # "waiting_for_qr"
                 THEN resetReconnectState(
                          [c EXCEPT !.currentQR = qr,
                                    !.connectionState = "waiting_for_qr",
                                    !.isAuthenticated = FALSE, !.isConnected = FALSE])
                 ELSE c
        shouldReconnect == statusCode # "loggedOut"
        closed == [shown EXCEPT !.isConnected = FALSE,
                                !.connectionState = "disconnected",
                                !.isReconnecting = FALSE]
    IN CASE connection = "close" ->
              IF statusCode = "loggedOut"
              THEN resetReconnectState(
                       [closed EXCEPT !.isAuthenticated = FALSE, !.currentQR = 0])
              ELSE IF statusCode = "restartRequired"
              THEN [closed EXCEPT !.reconnectAttempts = 0, !.restartTimers = @ + 1]
              ELSE IF shouldReconnect /\ ~closed.isReconnecting
              THEN scheduleReconnect(closed)
              ELSE resetReconnectState(closed)
         [] connection = "open" ->
              resetReconnectState(
                  [shown EXCEPT !.isConnected = TRUE, !.isAuthenticated = TRUE,
                                !.connectionState = "connected", !.currentQR = 0])
         [] connection = "connecting" ->
              [shown EXCEPT !.connectionState = "connecting", !.isConnected = FALSE]
         [] OTHER -> shown

\* WhatsAppConnection.disconnect: the socket is ended, not forgotten.
disconnect(c) ==
    resetReconnectState([c EXCEPT !.isConnected = FALSE, !.isAuthenticated = FALSE])

\* The record kept of a step of the connection: the method or callback that
\* ran, for a "connection.update" what the socket reported, and for a step
\* that calls connect() whether the socket was created.
ChannelEvent(op, connection, statusCode, connectOk, qr) ==
    [NoCall EXCEPT !.op = op, !.connection = connection,
                   !.statusCode = statusCode, !.connectOk = connectOk,
                   !.qr = qr]

\* The state a step of the connection leaves.
SetConnection(c, event) ==
    /\ c.reconnectTimers + c.restartTimers <= MaxTimers
    /\ \E jitter \in (IF c.armed THEN Jitters ELSE {0}) :
         last' = [event EXCEPT
                     !.delay = IF c.armed
                               THEN calculateReconnectDelay(c.reconnectAttempts, jitter)
                               ELSE 0]
    /\ sock' = c.sock
    /\ isConnected' = c.isConnected
    /\ isAuthenticated' = c.isAuthenticated
    /\ connectionState' = c.connectionState
    /\ reconnectAttempts' = c.reconnectAttempts
    /\ isReconnecting' = c.isReconnecting
    /\ reconnectTimeout' = c.reconnectTimeout
    /\ currentQR' = c.currentQR
    /\ reconnectTimers' = c.reconnectTimers
    /\ restartTimers' = c.restartTimers
    /\ UNCHANGED <<configVars, heartbeat, storeVars, healthVars, now>>

\* Whaple.connectToWhatsApp
ConnectToWhatsApp ==
    /\ last = NoCall
    /\ useDirectWhatsApp
    /\ \E ok \in BOOLEAN :
         SetConnection(connect(Connection, ok), ChannelEvent("connect", "none", "none", ok, 0))

\* Whaple.disconnect
Disconnect ==
    /\ last = NoCall
    /\ useDirectWhatsApp
    /\ SetConnection(disconnect(Connection), ChannelEvent("disconnect", "none", "none", FALSE, 0))

\* The QR codes a socket may show.
QRCodes == {1, 2}

\* A socket emits "connection.update".
ConnectionUpdate ==
    /\ last = NoCall
    /\ sock
    /\ \E connection \in {"none", "open", "close", "connecting"}, qr \in {0} \cup QRCodes :
         \E statusCode \in (IF connection = "close" THEN DisconnectReasons
                            ELSE {"connectionLost"}) :
            /\ connection # "none" \/ qr # 0
            /\ SetConnection(onConnectionUpdate(Connection, connection, statusCode, qr),
                             ChannelEvent("connection.update", connection,
                                 IF connection = "close" THEN statusCode ELSE "none",
                                 FALSE, qr))

\* A reconnect timer runs out: the one the handle refers to, or one armed
\* earlier whose handle was overwritten.
ReconnectTimerFires ==
    /\ last = NoCall
    /\ reconnectTimers > 0
    /\ \E tracked \in BOOLEAN, ok \in BOOLEAN :
         /\ tracked => reconnectTimeout = "armed"
         /\ ~tracked => reconnectTimers > (IF reconnectTimeout = "armed" THEN 1 ELSE 0)
         /\ SetConnection(
                connect([Connection EXCEPT
                            !.reconnectTimers = @ - 1,
                            !.reconnectTimeout = IF tracked THEN "fired" ELSE @,
                            !.reconnectAttempts = @ + 1], ok),
                ChannelEvent("reconnectTimer", "none", "none", ok, 0))

\* The delay after a required restart runs out.
RestartTimerFires ==
    /\ last = NoCall
    /\ restartTimers > 0
    /\ SetConnection(scheduleReconnect([Connection EXCEPT !.restartTimers = @ - 1]),
                     ChannelEvent("restartTimer", "none", "none", FALSE, 0))

(***************************************************************************)
(* The environment: the queue-draining worker and the clock                *)
(***************************************************************************)
\* The partitions that hold the id.
PartitionsOf(id) ==
    {p \in {"pending", "processing", "completed", "failed"} :
        \/ p = "pending" /\ id \in DOMAIN pending
        \/ p = "processing" /\ id \in processing
        \/ p = "completed" /\ id \in completed
        \/ p = "failed" /\ id \in failed}

\* A map without one of its keys.
Without(messages, id) == [k \in DOMAIN messages \ {id} |-> messages[k]]

\* The worker starts a move: it writes the record to the next partition.
\* It moves one record at a time.
WorkerWrite ==
    /\ last = NoCall \/ Awaiting
    /\ \A id \in Ids : Cardinality(PartitionsOf(id)) <= 1
    /\ \E id \in Ids :
        \/ /\ PartitionsOf(id) = {"pending"}
           /\ processing' = processing \cup {id}
           /\ UNCHANGED <<pending, completed, failed>>
        \/ /\ PartitionsOf(id) = {"processing"}
           /\ completed' = completed \cup {id}
           /\ UNCHANGED <<pending, processing, failed>>
        \/ /\ PartitionsOf(id) = {"processing"}
           /\ failed' = failed \cup {id}
           /\ UNCHANGED <<pending, processing, completed>>
    /\ UNCHANGED <<configVars, heartbeat, healthVars, waVars, now, last>>

\* The worker ends a move: it deletes the record from the partition it left.
WorkerDelete ==
    /\ last = NoCall \/ Awaiting
    /\ \E id \in Ids :
        \/ /\ PartitionsOf(id) = {"pending", "processing"}
           /\ pending' = Without(pending, id)
           /\ UNCHANGED <<processing, completed, failed>>
        \/ /\ PartitionsOf(id) \in {{"processing", "completed"}, {"processing", "failed"}}
           /\ processing' = processing \ {id}
           /\ UNCHANGED <<pending, completed, failed>>
    /\ UNCHANGED <<configVars, heartbeat, healthVars, waVars, now, last>>

\* The heartbeats the worker may write: alive or shutting down, seen now.
Heartbeats == {[exists |-> TRUE, alive |-> a, lastSeen |-> now] : a \in BOOLEAN}

\* The worker refreshes its heartbeat record.
Heartbeat ==
    /\ last = NoCall
    /\ \E h \in Heartbeats : h # heartbeat /\ heartbeat' = h
    /\ UNCHANGED <<configVars, storeVars, healthVars, waVars, now, last>>

\* Time passes.
Tick ==
    /\ last = NoCall
    /\ now < MaxTime
    /\ now' = now + TickMs
    /\ UNCHANGED <<configVars, heartbeat, storeVars, healthVars, waVars, last>>

(***************************************************************************)
(* Specifications                                                          *)
(***************************************************************************)
Thresholds == {DefaultQueueThreshold, DefaultQueueThreshold + 1}

InitCommon ==
    /\ enableSmartRouting \in BOOLEAN
    /\ queueThreshold \in Thresholds
    \* the threshold is read under smart routing only
    /\ enableSmartRouting \/ queueThreshold = DefaultQueueThreshold
    /\ pending = <<>> /\ processing = {} /\ completed = {} /\ failed = {}
    /\ cacheLastCheck = 0 /\ cacheLastResult = FALSE
    /\ cacheTimeMs = DefaultCacheTimeMs
    /\ sock = FALSE /\ isConnected = FALSE /\ isAuthenticated = FALSE
    /\ connectionState = "disconnected"
    /\ reconnectAttempts = 0 /\ isReconnecting = FALSE
    /\ reconnectTimeout = "none" /\ currentQR = 0
    /\ reconnectTimers = 0 /\ restartTimers = 0
    /\ heartbeat = NoHeartbeat
    /\ now = StartTime
    /\ last = NoCall

\* The SDK in API mode: a remote server behind ApiClient and HealthChecker.
Init == InitCommon /\ useDirectWhatsApp = FALSE

Next ==
    \/ SendMessage
    \/ QueueMessage
    \/ SendDirect
    \/ GetQueueStatus
    \/ Return
    \/ WorkerWrite
    \/ WorkerDelete
    \/ Tick

Spec == Init /\ [][Next]_vars

\* The queue manager on its own, in API mode with the default configuration:
\* enqueues, status and position queries, the worker and its heartbeat.  The
\* worker may have left a heartbeat long ago.
InitQueue ==
    /\ useDirectWhatsApp = FALSE /\ enableSmartRouting = TRUE
    /\ queueThreshold = DefaultQueueThreshold
    /\ pending = <<>> /\ processing = {} /\ completed = {} /\ failed = {}
    /\ heartbeat \in {NoHeartbeat,
                      [exists |-> TRUE, alive |-> TRUE,
                       lastSeen |-> StartTime - HeartbeatToleranceMs]}
    /\ cacheLastCheck = 0 /\ cacheLastResult = FALSE
    /\ cacheTimeMs = DefaultCacheTimeMs
    /\ sock = FALSE /\ isConnected = FALSE /\ isAuthenticated = FALSE
    /\ connectionState = "disconnected"
    /\ reconnectAttempts = 0 /\ isReconnecting = FALSE
    /\ reconnectTimeout = "none" /\ currentQR = 0
    /\ reconnectTimers = 0 /\ restartTimers = 0
    /\ now = StartTime
    /\ last = NoCall

NextQueue ==
    \/ QueueMessage
    \/ GetQueueStatus
    \/ ConditionalAdd
    \/ GetMessageStatus
    \/ GetQueuePosition
    \/ Return
    \/ WorkerWrite
    \/ WorkerDelete
    \/ Heartbeat
    \/ Tick

SpecQueue == InitQueue /\ [][NextQueue]_vars

\* conditionalAdd among other processes: the worker moves records and another
\* caller enqueues while a conditionalAdd is between its two awaits.
NextAtomic ==
    \/ QueueMessage
    \/ ConditionalAddEvaluates
    \/ ConditionalAddWrites
    \/ ConcurrentAddMessage
    \/ Return
    \/ WorkerWrite
    \/ WorkerDelete

SpecAtomic == InitQueue /\ [][NextAtomic]_vars


\* The health checker on its own, under a clock.
NextHealth ==
    \/ IsServerHealthy
    \/ GetDetailedStatus
    \/ SetCacheTime
    \/ ClearCache
    \/ Return
    \/ Tick

SpecHealth == Init /\ [][NextHealth]_vars

\* normalizePhoneNumber on its own: a destination string is handed to it, and
\* what it returns is handed to it again.
Characters == {"1", "2", "+", "-"}

Destinations == UNION {[1..n -> Characters] : n \in 0..MaxLen}

Destination(number) == [NoCall EXCEPT !.op = "destination", !.number = number]

NormalizePhoneNumber ==
    /\ last.op \in {"destination", "normalizePhoneNumber"}
    /\ ~last.threw
    /\ last.applications < MaxApplications
    /\ LET number == IF last.op = "destination" THEN last.number
                     ELSE last.normalized
       IN last' = IF number = <<>>
                  THEN [ValidationError(last) EXCEPT
                           !.op = "normalizePhoneNumber",
                           !.applications = last.applications + 1]
                  ELSE [last EXCEPT
                           !.op = "normalizePhoneNumber",
                           !.number = number,
                           !.normalized = normalizePhoneNumber(number),
                           !.applications = last.applications + 1]
    /\ UNCHANGED <<configVars, storeVars, heartbeat, healthVars, waVars, now>>

InitNormalize ==
    /\ useDirectWhatsApp = FALSE /\ enableSmartRouting = TRUE
    /\ queueThreshold = DefaultQueueThreshold
    /\ pending = <<>> /\ processing = {} /\ completed = {} /\ failed = {}
    /\ heartbeat = NoHeartbeat
    /\ cacheLastCheck = 0 /\ cacheLastResult = FALSE
    /\ cacheTimeMs = DefaultCacheTimeMs
    /\ sock = FALSE /\ isConnected = FALSE /\ isAuthenticated = FALSE
    /\ connectionState = "disconnected"
    /\ reconnectAttempts = 0 /\ isReconnecting = FALSE
    /\ reconnectTimeout = "none" /\ currentQR = 0
    /\ reconnectTimers = 0 /\ restartTimers = 0
    /\ now = StartTime
    /\ \E number \in Destinations : last = Destination(number)

NextNormalize == NormalizePhoneNumber

SpecNormalize == InitNormalize /\ [][NextNormalize]_vars

\* The constructor on its own: an argument and an environment are handed to
\* it.  A construction that throws leaves no object behind.
Construction(config, env) ==
    [NoCall EXCEPT !.op = "config", !.config = config, !.env = env]

Construct ==
    /\ last.op = "config"
    /\ \E firebase \in (IF validateConfig(MergedConfig(last.config, last.env)) # <<>>
                         THEN {[existingApp |-> FALSE, initializeOk |-> TRUE,
                                databaseOk |-> TRUE]}
                         ELSE FirebaseOutcomes) :
         LET w == Whaple_constructor(last.config, last.env, firebase)
         IN /\ last' = [last EXCEPT !.op = "constructor", !.threw = w.threw,
                                      !.error = w.error, !.services = w.services]
            /\ useDirectWhatsApp' = IF w.threw THEN useDirectWhatsApp
                                    ELSE last.config.useDirectWhatsApp
    /\ UNCHANGED <<enableSmartRouting, queueThreshold, storeVars, heartbeat,
                   healthVars, waVars, now>>

InitConstruct ==
    /\ useDirectWhatsApp = FALSE /\ enableSmartRouting = TRUE
    /\ queueThreshold = DefaultQueueThreshold
    /\ pending = <<>> /\ processing = {} /\ completed = {} /\ failed = {}
    /\ heartbeat = NoHeartbeat
    /\ cacheLastCheck = 0 /\ cacheLastResult = FALSE
    /\ cacheTimeMs = DefaultCacheTimeMs
    /\ sock = FALSE /\ isConnected = FALSE /\ isAuthenticated = FALSE
    /\ connectionState = "disconnected"
    /\ reconnectAttempts = 0 /\ isReconnecting = FALSE
    /\ reconnectTimeout = "none" /\ currentQR = 0
    /\ reconnectTimers = 0 /\ restartTimers = 0
    /\ now = StartTime
    /\ \E config \in Configs, env \in Envs : last = Construction(config, env)

NextConstruct == Construct

SpecConstruct == InitConstruct /\ [][NextConstruct]_vars

\* The SDK in either mode, with the life cycle of the direct channel.
InitChannel == InitCommon /\ useDirectWhatsApp \in BOOLEAN

NextChannel ==
    \/ SendMessage
    \/ QueueMessage
    \/ SendDirect
    \/ ChannelSendMessage
    \/ GetMessageHistory
    \/ Return
    \/ ConnectToWhatsApp
    \/ Disconnect
    \/ ConnectionUpdate
    \/ ReconnectTimerFires
    \/ RestartTimerFires

SpecChannel == InitChannel /\ [][NextChannel]_vars

(***************************************************************************)
(* Properties.  `last` is the call that has just completed; the other      *)
(* variables are the state that call left.                                 *)
(***************************************************************************)
\* The call stopped at normalizePhoneNumber.
Rejecting == last.threw /\ last.error = <<"ValidationError", "Phone number is required">>

\* sendMessage has just run smartRoutingDecision.
SmartRouted ==
    /\ last.op = "sendMessage"
    /\ ~useDirectWhatsApp /\ enableSmartRouting
    /\ last.healthQueried

\* The rank of a pending record: the number of pending records queued before
\* it, a record queued at the same time counting when its id is smaller.
Rank(messages, id) ==
    Cardinality({k \in DOMAIN messages :
                    \/ messages[k].queuedAt < messages[id].queuedAt
                    \/ messages[k].queuedAt = messages[id].queuedAt /\ k < id})

\* The probe outcomes that are failures of the probe.
ProbeFailures == {"500", "timeout", "error"}

\* C1: under smart routing a failure while the route is decided never loses
\* the message.  A failed queue-status read or health probe does not make
\* the call throw; whatever throws inside the routing decision is answered
\* by an enqueue; so whenever sendMessage returns a result, the direct
\* backend accepted the message or the returned id has a record in pending,
\* and sendMessage throws only after two enqueue attempts were both rejected
\* by the store.
C1_RoutingFailureNeverLosesMessage ==
    SmartRouted =>
        /\ ~last.threw =>
              \/ last.apiOk /\ last.result.method = "direct"
              \/ /\ last.result.method = "queued"
                 /\ last.result.messageId \in last.written
                 /\ last.result.messageId \in DOMAIN pending
        /\ (last.adds # <<>> /\ ~last.adds[1]) => Len(last.adds) = 2
        /\ last.threw => last.adds = <<FALSE, FALSE>>

\* C1 witness: the status read failed, the probe timed out, the first
\* enqueue was rejected, and the enqueue of the catch block stored the message.
C1_Witness ==
    /\ SmartRouted
    /\ ~last.statusReadOk /\ last.probe = "timeout"
    /\ last.adds = <<FALSE, TRUE>>
    /\ ~last.threw
    /\ last.result.messageId \in DOMAIN pending

\* C2: under smart routing sendMessage enqueues without a direct attempt
\* exactly when the server is unhealthy, or the pending count exceeds
\* queueThreshold, or the processing count is positive (counts as the status
\* query reports them: the partition sizes when the read succeeds); otherwise
\* it attempts the direct send.  With an empty queue, a healthy server and a
\* send that succeeds the result has method = direct and nothing is written
\* to pending.
C2_QueueExactlyWhenUnhealthyOrBacklog ==
    SmartRouted =>
        LET useQueue == \/ ~last.healthy
                        \/ last.pendingSeen > queueThreshold
                        \/ last.processingSeen > 0
        IN /\ last.statusReadOk =>
                 /\ last.pendingSeen = Cardinality(last.pendingBefore)
                 /\ last.processingSeen = Cardinality(processing)
           /\ useQueue <=> ~last.apiCalled
           /\ useQueue => /\ last.adds # <<>>
                          /\ ~last.threw => last.result.method = "queued"
           /\ (~useQueue /\ last.apiOk) =>
                 /\ ~last.threw
                 /\ last.result.method = "direct"
                 /\ last.adds = <<>> /\ last.written = {}
                 /\ DOMAIN pending = last.pendingBefore
           /\ (last.healthy /\ last.pendingBefore = {} /\ processing = {}) =>
                 last.apiCalled

\* C2 witness: a healthy server and one pending record with queueThreshold 1:
\* the backlog does not exceed the threshold and the message goes direct.
C2_Witness ==
    /\ SmartRouted
    /\ last.healthy /\ last.pendingSeen = 1 /\ queueThreshold = 1
    /\ last.processingSeen = 0
    /\ last.apiOk /\ last.result.method = "direct"
    /\ DOMAIN pending = last.pendingBefore

\* C3: under smart routing, when the direct send fails and the fallback
\* enqueue succeeds, sendMessage returns a result with success = true,
\* method = queued, the id of the record the fallback wrote, the rank of that
\* record in pending (when the store answers the position read), and the
\* error of the direct path attached.
C3_FallbackResult ==
    (SmartRouted /\ last.apiCalled /\ ~last.apiOk /\ last.adds = <<TRUE>>) =>
        /\ ~last.threw
        /\ last.result.success
        /\ last.result.method = "queued"
        /\ last.written = {last.result.messageId}
        /\ last.result.messageId \notin last.pendingBefore
        /\ last.result.messageId \in DOMAIN pending
        /\ last.positionReadOk =>
              last.result.position = Rank(pending, last.result.messageId)
        /\ last.directError # NoError
        /\ last.result.error = Wrap("Fallback", last.directError)

\* C3 witness: the API rejected the send while one record was pending (under
\* queueThreshold 1) and the fallback stored the message behind it.
C3_Witness ==
    /\ SmartRouted
    /\ last.apiCalled /\ ~last.apiOk
    /\ last.directError = <<"API request failed", "rejected">>
    /\ last.adds = <<TRUE>>
    /\ last.result.position = 1
    /\ last.result.error = <<"Fallback", "API request failed", "rejected">>

\* C4: under smart routing sendMessage reports success = true whenever the
\* message reached a backend (the direct send was accepted or an enqueue
\* wrote it), it never returns success = false, and it fails (by throwing)
\* only when the message reached no backend: on the direct route only when
\* the direct send, its fallback enqueue and the enqueue of the catch block
\* all failed.
C4_SuccessWheneverDelivered ==
    SmartRouted =>
        /\ (last.apiOk \/ last.written # {}) =>
              /\ ~last.threw
              /\ last.result.success
        /\ ~last.threw => last.result.success
        /\ last.threw =>
              /\ ~last.apiOk /\ last.written = {}
              /\ DOMAIN pending = last.pendingBefore
              /\ \A i \in 1..Len(last.adds) : ~last.adds[i]

\* C4 witness: the network failed the direct send and the fallback enqueue
\* stored the message: success is reported.
C4_Witness ==
    /\ SmartRouted
    /\ last.apiCalled /\ ~last.apiOk
    /\ last.directError = <<"API request failed", "network">>
    /\ last.written # {}
    /\ ~last.threw /\ last.result.success

\* C5 as the spec states it: in direct-WhatsApp mode sendMessage attempts the
\* direct send exactly when the channel is connected and authenticated; when
\* that send fails and the enqueue succeeds the result is the result of the
\* smart-routing fallback (queued, with the direct error attached); when the
\* channel is not connected or not authenticated the message is enqueued
\* with no send.
C5_DirectModeFallback ==
    (last.op = "sendMessage" /\ useDirectWhatsApp /\ ~Rejecting) =>
        /\ last.waCalled <=> (isConnected /\ isAuthenticated)
        /\ ~last.waCalled => /\ ~last.waDispatched
                             /\ Len(last.adds) = 1
        /\ (last.waCalled /\ ~last.waOk) => Len(last.adds) = 1
        /\ (last.waCalled /\ ~last.waOk /\ last.adds = <<TRUE>>) =>
              /\ ~last.threw
              /\ last.result.method = "queued"
              /\ last.result.messageId \in DOMAIN pending
              /\ last.result.error = Wrap("Fallback", last.directError)

\* C6: when the health probe fails (a timeout, a network error, a status that
\* is not a success) isServerHealthy returns false and caches it, and
\* sendMessage under smart routing makes no direct attempt and enqueues: it
\* returns method = queued, and throws only when the store rejected the
\* enqueue twice.
C6_ProbeFailureRoutesToQueue ==
    (SmartRouted /\ last.probed /\ last.probe \in ProbeFailures) =>
        /\ ~last.healthy
        /\ cacheLastResult = FALSE /\ cacheLastCheck = now
        /\ ~last.apiCalled
        /\ last.adds # <<>>
        /\ ~last.threw => /\ last.result.method = "queued"
                          /\ last.result.messageId \in DOMAIN pending
        /\ last.threw => last.adds = <<FALSE, FALSE>>

\* C6 witness: the probe timed out with nothing pending or processing, and
\* the message was queued.
C6_Witness ==
    /\ SmartRouted
    /\ last.probed /\ last.probe = "timeout"
    /\ last.pendingBefore = {} /\ processing = {}
    /\ ~last.threw /\ last.result.method = "queued"

\* C7: sendDirect never writes to the queue, never consults health or queue
\* status and never falls back: it calls the API client and nothing else,
\* and when the API client fails, the call throws the API client's error as
\* it is.
C7_SendDirectNoFallback ==
    last.op = "sendDirect" =>
        /\ last.adds = <<>> /\ last.written = {}
        /\ DOMAIN pending = last.pendingBefore
        /\ ~last.healthQueried /\ ~last.statusQueried /\ ~last.waCalled
        /\ (~Rejecting /\ ~useDirectWhatsApp) => last.apiCalled
        /\ last.apiOk => ~last.threw
        /\ (last.apiCalled /\ ~last.apiOk) =>
              /\ last.threw
              /\ last.error = last.directError
              /\ last.error[1] = "API request failed"

\* C7 witness: the API send failed while a record was pending; the call threw
\* and wrote nothing.
C7_Witness ==
    /\ last.op = "sendDirect"
    /\ last.apiCalled /\ ~last.apiOk
    /\ last.threw
    /\ last.pendingBefore # {}

\* C8 as the spec states it: queueMessage, and sendMessage with smart routing
\* disabled, enqueue without a health query and without the direct channel
\* or the API.
C8_ForcedQueueAnyMode ==
    (/\ ~Rejecting
     /\ \/ last.op = "queueMessage"
        \/ last.op = "sendMessage" /\ ~enableSmartRouting) =>
        /\ Len(last.adds) = 1
        /\ ~last.healthQueried /\ ~last.statusQueried
        /\ ~last.apiCalled /\ ~last.waCalled

\* C8: queueMessage in either mode, and sendMessage with smart routing
\* disabled when direct-WhatsApp mode is off, make one enqueue and nothing
\* else: no health query, no status query, no API send, no socket send.
C8_ForcedQueue ==
    (/\ ~Rejecting
     /\ \/ last.op = "queueMessage"
        \/ last.op = "sendMessage" /\ ~enableSmartRouting /\ ~useDirectWhatsApp) =>
        /\ Len(last.adds) = 1
        /\ ~last.healthQueried /\ ~last.statusQueried
        /\ ~last.apiCalled /\ ~last.waCalled
        /\ ~last.threw => /\ last.result.method = "queued"
                          /\ last.written = {last.result.messageId}
                          /\ last.result.messageId \in DOMAIN pending
                          /\ last.result.error = NoError
        /\ last.threw => last.written = {}

\* C8 witness: sendMessage with smart routing disabled, direct-WhatsApp mode
\* off, queued the message.
C8_Witness ==
    /\ last.op = "sendMessage" /\ ~enableSmartRouting /\ ~useDirectWhatsApp
    /\ ~last.threw
    /\ last.result.method = "queued"
    /\ last.adds = <<TRUE>>

\* C9: under smart routing with queueThreshold = 0 and k >= 1 records pending,
\* all queued earlier than the call, a sendMessage that returns (the store
\* answering the status and position reads) has method = queued and
\* position = k.
C9_PositionBehindPending ==
    (/\ SmartRouted /\ queueThreshold = 0
     /\ ~last.threw
     /\ last.statusReadOk /\ last.positionReadOk
     /\ last.pendingBefore # {}
     /\ \A k \in last.pendingBefore : pending[k].queuedAt < now) =>
        /\ ~last.apiCalled
        /\ last.result.method = "queued"
        /\ last.result.position = Cardinality(last.pendingBefore)

\* C9 witness: one record queued earlier under a larger id; the new
\* message is queued at position 1.
C9_Witness ==
    /\ SmartRouted /\ queueThreshold = 0
    /\ ~last.threw /\ last.statusReadOk /\ last.positionReadOk
    /\ Cardinality(last.pendingBefore) = 1
    /\ \A k \in last.pendingBefore :
          pending[k].queuedAt < now /\ last.result.messageId < k
    /\ last.result.position = 1

\* C10 as the spec states it: every id is in exactly one partition.
C10_ExactlyOnePartition ==
    \A id \in UsedIds : Cardinality(PartitionsOf(id)) = 1

\* C10: an id the SDK has just written is in pending and nowhere else; every
\* id is in one partition, or, while the worker moves it, in the partition
\* it leaves and the one it enters.
C10_OnePartitionOrMoving ==
    /\ \A id \in last.written :
          id \notin last.pendingBefore /\ PartitionsOf(id) = {"pending"}
    /\ \A id \in UsedIds :
          \/ Cardinality(PartitionsOf(id)) = 1
          \/ PartitionsOf(id) \in {{"pending", "processing"},
                                   {"processing", "completed"},
                                   {"processing", "failed"}}

\* C10 witness: the SDK has written one id to pending while the worker is
\* moving another from pending to processing.
C10_Witness ==
    /\ last.written # {}
    /\ \E id \in UsedIds : PartitionsOf(id) = {"pending", "processing"}

\* C11: a getMessageStatus whose store read succeeds reports pending for an id
\* that is still under pending, and sent for an id that has been moved to
\* completed; a record moved to completed stays there, so the report is sent
\* in every later state and never pending, processing or failed again.
C11_PendingUntilMovedThenSent ==
    /\ [](last.op = "getMessageStatus" /\ last.readOk =>
            /\ last.queried \in DOMAIN pending => last.status = "pending"
            /\ PartitionsOf(last.queried) = {"completed"} => last.status = "sent")
    /\ [][\A id \in Ids : PartitionsOf(id) = {"completed"}
                              => PartitionsOf(id)' = {"completed"}]_vars

C11_Witness ==
    /\ last.op = "getMessageStatus" /\ last.readOk
    /\ PartitionsOf(last.queried) = {"completed"}
    /\ last.status = "sent"
    /\ DOMAIN pending # {}

\* C12: a getMessageStatus whose store read succeeds reports the status of
\* the first of pending, processing, completed, failed that holds the id
\* (pending, processing, sent, failed); for an id no partition holds it
\* reports failed with the reason that the message was not found in any
\* queue state, and never pending.
C12_FirstMatchInFixedOrder ==
    last.op = "getMessageStatus" /\ last.readOk =>
        LET held == PartitionsOf(last.queried)
        IN /\ "pending" \in held => last.status = "pending"
           /\ "pending" \notin held /\ "processing" \in held
                  => last.status = "processing"
           /\ held \cap {"pending", "processing"} = {} /\ "completed" \in held
                  => last.status = "sent"
           /\ held = {"failed"} => last.status = "failed"
           /\ held = {} => /\ last.status = "failed"
                           /\ last.reason = "Message not found in any queue state"

C12_Witness ==
    /\ last.op = "getMessageStatus" /\ last.readOk
    /\ PartitionsOf(last.queried) = {"pending", "processing"}
    /\ last.status = "pending"
    /\ \E id \in Ids : PartitionsOf(id) = {}

\* C13: a getQueuePosition whose store read succeeds returns the 0-based rank
\* of the id among the pending records by ascending queuedAt, records queued
\* at the same time ranked by id, and -1 for an id that is not pending; so
\* the earliest-queued record has position 0.
C13_PositionIsRank ==
    last.op = "getQueuePosition" /\ last.readOk =>
        /\ last.queried \in DOMAIN pending
              => last.result.position = Rank(pending, last.queried)
        /\ last.queried \notin DOMAIN pending => last.result.position = 0 - 1
        /\ (/\ last.queried \in DOMAIN pending
            /\ \A k \in DOMAIN pending \ {last.queried} :
                  pending[last.queried].queuedAt < pending[k].queuedAt)
              => last.result.position = 0

\* C13 witness: two records queued at the same time; the one with the larger
\* id is at position 1.
C13_Witness ==
    /\ last.op = "getQueuePosition" /\ last.readOk
    /\ last.queried \in DOMAIN pending
    /\ \E k \in DOMAIN pending :
          /\ k < last.queried
          /\ pending[k].queuedAt = pending[last.queried].queuedAt
    /\ last.result.position = 1

\* C14: a call that gets to addMessage either returns a success result, and
\* then it has written exactly one record, under an id no record had, into
\* pending with status pending and retryCount 0 and has touched no other
\* record; or it throws an error that names the failed write, and then it
\* has returned no success result and pending is as it was.
C14_OneFreshPendingRecordOrError ==
    [][last'.op \in {"queueMessage", "conditionalAdd"} /\ last'.adds # <<>> =>
          IF last'.threw
          THEN /\ pending' = pending
               /\ ~last'.result.success
               /\ \E i \in 1..Len(last'.error) :
                     last'.error[i] = "Failed to queue message"
          ELSE /\ last'.result.success
               /\ last'.result.messageId \notin UsedIds
               /\ DOMAIN pending' = DOMAIN pending \cup {last'.result.messageId}
               /\ \A k \in DOMAIN pending : pending'[k] = pending[k]
               /\ pending'[last'.result.messageId].status = "pending"
               /\ pending'[last'.result.messageId].retryCount = 0
               /\ UNCHANGED <<processing, completed, failed>>]_vars

\* C14 witness: with a record pending, the write of a second one is
\* rejected and the call throws.
C14_Witness ==
    /\ last.op = "queueMessage" /\ last.adds = <<FALSE>>
    /\ last.threw /\ ~last.result.success
    /\ Head(last.error) = "Failed to queue message"
    /\ last.pendingBefore # {} /\ DOMAIN pending = last.pendingBefore

\* C15 as the spec states it: a conditionalAdd without a custom condition,
\* the status read succeeding, enqueues exactly when the worker is not alive
\* or pending + processing > 0; with the worker alive and the queue empty it
\* writes nothing and returns a condition_failed result.
C15_DefaultEnqueuesIffOfflineOrBacklog ==
    last.op = "conditionalAdd" /\ last.custom = "none" /\ last.statusReadOk =>
        LET backlog == Cardinality(last.pendingBefore) + Cardinality(processing)
            shouldEnqueue == ~isServerAlive \/ backlog > 0
        IN /\ last.adds # <<>> <=> shouldEnqueue
           /\ ~shouldEnqueue => /\ last.written = {}
                                /\ ~last.threw
                                /\ last.result.method = "condition_failed"

\* C16 as the spec states it: at most one reconnect timer is pending at any
\* time, and a close event that arrives while one is pending arms no second
\* one.
C16_AtMostOneReconnectTimer ==
    /\ reconnectTimers <= 1
    /\ reconnectTimers = 1 => reconnectTimeout = "armed"

\* A "connection.update" that reports a close with the given status code
\* has just been handled.
Closed(statusCode) ==
    /\ last.op = "connection.update"
    /\ last.connection = "close"
    /\ last.statusCode = statusCode

\* C17 as the spec states it: when a close with reason logged-out has been
\* handled, isAuthenticated is false, the stored QR code is cleared and no
\* timer is left that would call connect(): an automatic connect() needs a
\* pending timer, so none can occur before the caller connects again.
C17_LoggedOutCancelsReconnect ==
    Closed("loggedOut") =>
        /\ ~isAuthenticated
        /\ currentQR = 0
        /\ reconnectTimeout = "none"
        /\ reconnectTimers = 0
        /\ restartTimers = 0

\* C18 as the spec states it: when a close with reason restart-required has
\* been handled, reconnectAttempts is 0, and the reconnect it starts does not
\* wait for the backoff delay: the step that carries out the restart arms no
\* reconnect timer.
C18_RestartReconnectsWithoutBackoff ==
    /\ [](Closed("restartRequired") => reconnectAttempts = 0)
    /\ [][last'.op = "restartTimer" => reconnectTimers' <= reconnectTimers]_vars

\* The step calls scheduleReconnect with reconnectAttempts at the ceiling:
\* from the close handler, from the delay of a required restart, or from the
\* catch of a connect() that failed (in the timer callback after its
\* increment of the counter).
ReconnectRequestedAtCeiling ==
    \/ /\ last'.op = "connection.update" /\ last'.connection = "close"
       /\ last'.statusCode = "connectionLost"
       /\ reconnectAttempts' >= MAX_RECONNECT_ATTEMPTS
    \/ /\ last'.op = "restartTimer"
       /\ reconnectAttempts >= MAX_RECONNECT_ATTEMPTS
    \/ /\ last'.op = "connect" /\ ~last'.connectOk
       /\ reconnectAttempts >= MAX_RECONNECT_ATTEMPTS
    \/ /\ last'.op = "reconnectTimer" /\ ~last'.connectOk
       /\ reconnectAttempts + 1 >= MAX_RECONNECT_ATTEMPTS

C20_DisconnectLeavesNothingPending ==
    last.op = "disconnect" =>
        /\ ~isConnected /\ ~isAuthenticated
        /\ reconnectAttempts = 0 /\ ~isReconnecting
        /\ reconnectTimeout = "none"
        /\ reconnectTimers = 0
        /\ restartTimers = 0
        /\ disconnect(Connection) = Connection

\* WhatsAppConnection.getCurrentQR; 0 stands for undefined.
getCurrentQR == currentQR

\* C21 as the spec states it: when an update that carries a QR code (and no
\* change of the connection) has been handled, the channel is waiting for
\* the QR scan with both authentication flags cleared, and getCurrentQR()
\* returns the code of that update, the most recent one.
C21_LatestQRIsCurrent ==
    last.op = "connection.update" /\ last.qr # 0 /\ last.connection = "none" =>
        /\ connectionState = "waiting_for_qr"
        /\ ~isAuthenticated /\ ~isConnected
        /\ getCurrentQR = last.qr

\* C22: when an update that reports the connection open has been handled,
\* the channel is in state connected with isConnected and isAuthenticated
\* true, no QR code is stored, and the reconnect state is reset:
\* reconnectAttempts is 0, isReconnecting is false and the timer handle is
\* cleared.
C22_OpenResetsChannel ==
    last.op = "connection.update" /\ last.connection = "open" =>
        /\ connectionState = "connected"
        /\ isConnected /\ isAuthenticated
        /\ getCurrentQR = 0
        /\ reconnectAttempts = 0 /\ ~isReconnecting
        /\ reconnectTimeout = "none"

\* C22 witness: the update that opens the connection carries a QR code as
\* well; the code is not kept.
C22_Witness ==
    /\ last.op = "connection.update" /\ last.connection = "open"
    /\ last.qr # 0
    /\ connectionState = "connected" /\ isConnected /\ isAuthenticated
    /\ currentQR = 0 /\ reconnectAttempts = 0

\* The calls made on the channel itself.
ChannelCalls == {"WhatsAppConnection.sendMessage", "WhatsAppConnection.getMessageHistory"}

\* C23: sendMessage and getMessageHistory of the channel succeed only while
\* the channel is connected and authenticated; in every other state they
\* throw "WhatsApp not connected" and have dispatched nothing to the socket;
\* and no such call changes a field of the connection.
C23_ChannelCallsNeedReadyChannel ==
    /\ [](last.op \in ChannelCalls =>
            /\ ~last.threw => isConnected /\ isAuthenticated
            /\ ~(isConnected /\ isAuthenticated) =>
                  /\ last.threw
                  /\ last.error = <<"WhatsApp not connected">>
                  /\ ~last.waDispatched)
    /\ [][last'.op \in ChannelCalls => UNCHANGED waVars]_vars

\* C23 witness: after a connection was opened and lost, a send on the
\* channel is refused.
C23_Witness ==
    /\ last.op = "WhatsAppConnection.sendMessage"
    /\ sock /\ ~isConnected /\ connectionState = "disconnected"
    /\ last.threw /\ ~last.waDispatched
    /\ last.error = <<"WhatsApp not connected">>

\* A sendMessage in direct-WhatsApp mode, for a well-formed number, made
\* while the channel is not connected or not authenticated.
SentWhileNotConnected ==
    /\ last.op = "sendMessage" /\ useDirectWhatsApp
    /\ ~(isConnected /\ isAuthenticated)
    /\ ~Rejecting

C25_CachedWithinTTL ==
    /\ [][last'.op = "isServerHealthy" =>
            IF cacheLastCheck # 0 /\ now - cacheLastCheck < cacheTimeMs
            THEN /\ ~last'.probed
                 /\ last'.healthy = cacheLastResult
                 /\ UNCHANGED healthVars
            ELSE /\ last'.probed
                 /\ last'.healthy = (last'.probe = "200")
                 /\ cacheLastCheck' = now
                 /\ cacheLastResult' = last'.healthy
                 /\ UNCHANGED cacheTimeMs]_vars
    /\ (cacheTimeMs = DefaultCacheTimeMs /\ DefaultCacheTimeMs = 5000)

\* C25 witness: a result cached one tick ago is returned without a probe.
C25_Witness ==
    /\ last.op = "isServerHealthy"
    /\ ~last.probed
    /\ cacheLastCheck # 0 /\ cacheLastCheck < now
    /\ last.healthy = cacheLastResult

\* C26: getQueueStatus never throws; when its store read fails it returns a
\* status with every count zero and isProcessing false.  The router takes
\* such a status for an empty queue: with a healthy backend it sends
\* directly, whatever the queue holds.
C26_StatusReadFailureIsEmptyQueue ==
    /\ last.op = "getQueueStatus" =>
          /\ ~last.threw
          /\ ~last.statusReadOk =>
                /\ last.totalSeen = 0 /\ last.pendingSeen = 0
                /\ last.processingSeen = 0 /\ ~last.isProcessingSeen
    /\ SmartRouted /\ ~last.statusReadOk =>
          /\ last.pendingSeen = 0 /\ last.processingSeen = 0
          /\ last.healthy => last.apiCalled

\* C26 witness: records are pending and in processing, the status read of a
\* sendMessage fails, and the message is sent directly.
C26_Witness ==
    /\ SmartRouted /\ ~last.statusReadOk
    /\ last.pendingBefore # {} /\ processing # {}
    /\ last.healthy /\ last.apiCalled
    /\ last.result.method = "direct"

\* C27 as the spec states it: the status getQueueStatus returns, its reads
\* succeeding, reports isProcessing exactly when processing holds a record,
\* and reports the worker alive exactly when a heartbeat record exists with
\* alive = true and lastSeen less than 60000 ms before now.
C27_StatusReportsWorkerAlive ==
    last.op = "getQueueStatus" /\ last.statusReadOk =>
        /\ last.isProcessingSeen <=> processing # {}
        /\ last.serverAliveSeen <=>
              /\ heartbeat.exists /\ heartbeat.alive
              /\ now - heartbeat.lastSeen < 60000

\* C28 as the spec states it: when the custom condition passed to
\* conditionalAdd throws, whatever it throws, conditionalAdd does not throw:
\* it returns success = false with method condition_failed and writes
\* nothing.
C28_ThrowingConditionNeverThrows ==
    last.op = "conditionalAdd" /\ last.custom \in {"throws", "throwsNull"} =>
        /\ ~last.threw
        /\ ~last.result.success
        /\ last.result.method = "condition_failed"
        /\ last.adds = <<>> /\ last.written = {}

\* C28, the part that holds: when the custom condition throws an Error (any
\* value but null and undefined), conditionalAdd does not throw: it returns
\* success = false with method condition_failed and a reason that carries
\* the error, and writes nothing.
C28_ThrowingConditionIsFailedCondition ==
    last.op = "conditionalAdd" /\ last.custom = "throws" =>
        /\ ~last.threw
        /\ ~last.result.success
        /\ last.result.method = "condition_failed"
        /\ last.reason = "custom_condition_error"
        /\ last.adds = <<>> /\ last.written = {}
        /\ DOMAIN pending = last.pendingBefore

\* C28 witness: the condition throws while a record is pending; the queue
\* is left as it was.
C28_Witness ==
    /\ last.op = "conditionalAdd" /\ last.custom = "throws"
    /\ ~last.threw /\ last.result.method = "condition_failed"
    /\ last.pendingBefore # {} /\ DOMAIN pending = last.pendingBefore

\* A string that is a plus sign followed by digits and nothing else.
PlusThenDigits(s) ==
    /\ s # <<>> /\ Head(s) = "+"
    /\ \A i \in 2..Len(s) : s[i] \in Digits

\* C29: for every destination string that normalizePhoneNumber accepts, the
\* result is a plus sign followed only by digits.
C29_NormalizedIsPlusThenDigits ==
    last.op = "normalizePhoneNumber" /\ ~last.threw =>
        PlusThenDigits(last.normalized)

\* C29, the part that holds: the result begins with a plus sign and holds
\* nothing but digits and plus signs.
C29_NormalizedBeginsWithPlus ==
    last.op = "normalizePhoneNumber" /\ ~last.threw =>
        /\ Head(last.normalized) = "+"
        /\ \A i \in 1..Len(last.normalized) :
              last.normalized[i] \in Digits \cup {"+"}

C29_Witness ==
    /\ last.op = "normalizePhoneNumber" /\ ~last.threw
    /\ last.applications = 1
    /\ last.number = <<"1", "-", "2">>
    /\ last.normalized = <<"+", "1", "2">>

\* C30: normalizePhoneNumber is idempotent: applied to its own result for an
\* accepted destination, it accepts it and returns it unchanged.
C30_NormalizeIsIdempotent ==
    [][last.op = "normalizePhoneNumber" /\ last'.op = "normalizePhoneNumber" =>
          ~last'.threw /\ last'.normalized = last.normalized]_vars

C30_Witness ==
    /\ last.op = "normalizePhoneNumber" /\ ~last.threw
    /\ last.applications = 2
    /\ last.number = <<"+", "1", "2">>
    /\ last.normalized = <<"+", "1", "2">>

\* The calls of the router that take a destination and a body.
RouterCalls == {"sendMessage", "queueMessage", "sendDirect"}

\* A destination that is present and holds no digit.
Malformed(number) ==
    number # <<>> /\ \A i \in 1..Len(number) : number[i] \notin Digits

\* The call has made no request: no health probe, no read or write of the
\* store, no send on either route.
NoIO ==
    /\ ~last.probed /\ ~last.statusQueried
    /\ ~last.apiCalled /\ ~last.waCalled
    /\ last.adds = <<>> /\ last.written = {}

\* C31 as the spec states it: sendMessage, queueMessage and sendDirect reject
\* a missing destination, a malformed destination and an empty body with a
\* ValidationError before any I/O.
C31_InvalidArgumentsRejectedBeforeIO ==
    (/\ last.op \in RouterCalls
     /\ \/ last.number = <<>>
        \/ Malformed(last.number)
        \/ last.message = <<>>)
    => Rejecting /\ NoIO

\* C31, the part that holds: a missing destination is rejected with a
\* ValidationError before any I/O, by every call that has an API client to
\* read, and the store is left as it was.
C31_MissingDestinationRejectedBeforeIO ==
    (/\ last.op \in RouterCalls
     /\ last.number = <<>>
     /\ ~(last.op = "sendDirect" /\ useDirectWhatsApp))
    => Rejecting /\ NoIO /\ DOMAIN pending = last.pendingBefore

C31_Witness ==
    /\ last.op = "sendMessage" /\ last.number = <<>>
    /\ Rejecting /\ NoIO
    /\ enableSmartRouting /\ last.pendingBefore # {}

\* The outcomes of the status request that are failures of it.
StatusFailures == {"200-unparsable", "500", "timeout", "error"}

\* C32: getDetailedStatus never throws, and when the status request fails the
\* snapshot it returns has no version and no uptime while isHealthy is the
\* outcome of the basic probe.
C32_DetailedStatusSurvivesStatusFailure ==
    last.op = "getDetailedStatus" =>
        /\ ~last.threw
        /\ last.healthy = (last.probe = "200")
        /\ last.apiStatus \in StatusFailures =>
              last.version = "absent" /\ last.uptime = "absent"

C32_Witness ==
    /\ last.op = "getDetailedStatus" /\ ~last.threw
    /\ last.apiStatus = "timeout" /\ last.probe = "200"
    /\ last.healthy /\ last.version = "absent" /\ last.uptime = "absent"

\* The calls that make the basic probe when they do not answer from the cache.
ProbingCalls == {"isServerHealthy", "getDetailedStatus"}

\* The probe outcomes that are responses with a 2xx status.
Success2xx == {"200", "204"}

\* C33 as the spec states it: the basic probe treats any 2xx response of the
\* server as healthy and every other outcome as unhealthy.
C33_Any2xxIsHealthy ==
    last.op \in ProbingCalls /\ last.probed =>
        last.healthy = (last.probe \in Success2xx)

\* C33, the part that holds: an outcome that is not a 2xx response (another
\* status, a timeout, a network error) is unhealthy, and a 200 response is
\* healthy.
C33_Non2xxIsUnhealthy ==
    last.op \in ProbingCalls /\ last.probed =>
        /\ last.probe \notin Success2xx => ~last.healthy
        /\ last.probe = "200" => last.healthy

C33_Witness ==
    /\ last.op = "isServerHealthy" /\ last.probed
    /\ last.probe = "timeout" /\ ~last.healthy
    /\ cacheLastCheck = now /\ ~cacheLastResult

\* The configuration lacks something the constructor requires: the server URL
\* or the API key outside direct mode, the Firebase configuration in any mode.
MissingConfiguration(c) ==
    \/ ~c.useDirectWhatsApp /\ (~c.whatsappServerUrl \/ ~c.apiKey)
    \/ ~c.firebaseConfig

C35_ConditionalAddIsAtomic ==
    (/\ last.op = "conditionalAdd"
     /\ last.statusReadOk /\ last.written # {})
    => /\ last.pendingSeen = Cardinality(last.pendingBefore)
       /\ last.processingSeen = Cardinality(processing)
       /\ last.custom \in {"empty", "nonEmpty"} =>
             customResult([totalMessages |-> Cardinality(last.pendingBefore)
                                             + Cardinality(processing)],
                          last.custom)

\* The step under way is the handling of a close that is neither a logout nor
\* a required restart, and it has armed a reconnect timer.
BackoffScheduled ==
    /\ last.op = "connection.update" /\ last.connection = "close"
    /\ last.statusCode \notin {"loggedOut", "restartRequired"}
    /\ last.delay # 0

\* C36: for a close that is neither logged-out nor restart-required, the
\* reconnect is scheduled with delay = min(5000 * 2^reconnectAttempts, 60000)
\* + jitter with 0 <= jitter <= 1000: the delay never exceeds 61000 ms and
\* its base doubles with every attempt already made.
C36_BackoffDelay ==
    BackoffScheduled =>
        /\ \E jitter \in 0..1000 :
              last.delay = Min(5000 * 2^reconnectAttempts, 60000) + jitter
        /\ last.delay <= 61000

C36_Witness ==
    /\ BackoffScheduled
    /\ reconnectAttempts = 2
    /\ last.delay = 20999
    /\ reconnectTimeout = "armed"

\* C37: reconnectAttempts never exceeds the ceiling of 3, whatever closes,
\* timer firings, connect failures, QR codes and opens occur.
C37_AttemptsWithinCeiling == reconnectAttempts <= MAX_RECONNECT_ATTEMPTS

\* C38: when connect() throws in a reconnect attempt that the backoff timer
\* fired and reconnectAttempts is below the ceiling, another reconnect is
\* scheduled, and the channel is not left with isReconnecting = true while no
\* timer is pending and no connection attempt is under way.
C38_FailedReconnectIsRescheduled ==
    (/\ last.op = "reconnectTimer" /\ ~last.connectOk
     /\ reconnectAttempts < MAX_RECONNECT_ATTEMPTS)
    => /\ last.delay # 0 /\ reconnectTimeout = "armed"
       /\ ~(isReconnecting /\ reconnectTimers = 0 /\ restartTimers = 0)

\* C39: in every reachable state of the direct channel connectionState is
\* "connected" exactly when isConnected is true; in particular it is not
\* "connected" after disconnect().
C39_ConnectedStateIffConnected ==
    (connectionState = "connected") <=> isConnected

\* C39, the part that holds: a channel that is connected reports the state
\* "connected".
C39_ConnectedReportsConnected ==
    isConnected => connectionState = "connected"

C39_Witness ==
    /\ last.op = "connection.update" /\ last.connection = "open"
    /\ isConnected /\ connectionState = "connected"

\* The calls of addMessage that the call made and that returned.
SuccessfulAdds == {i \in DOMAIN last.adds : last.adds[i]}

\* C40: one sendMessage call writes at most one record to pending, whatever
\* health-probe, direct-send and store failures occur: an enqueue retried by
\* the routing fallback never leaves two records for the call.
C40_AtMostOneRecordPerSend ==
    last.op = "sendMessage" =>
        /\ Cardinality(SuccessfulAdds) <= 1
        /\ Cardinality(last.written) <= 1
        /\ DOMAIN pending = last.pendingBefore \cup last.written
        /\ Cardinality(DOMAIN pending) <= Cardinality(last.pendingBefore) + 1

C40_Witness ==
    /\ last.op = "sendMessage" /\ ~last.threw
    /\ last.apiCalled /\ ~last.apiOk
    /\ last.adds = <<FALSE, TRUE>>
    /\ Cardinality(last.written) = 1
    /\ DOMAIN pending = last.pendingBefore \cup last.written

====
